---- MODULE Spec2Model ----
(***************************************************************************)
(* Model of the image customization pipeline of the loretana backend:      *)
(* CustomizerController.uploadImage (customizer.controller.ts) and         *)
(* CustomizerService.uploadSessionImage / transformImage / applyShapeMask  *)
(* (customizer.service.ts).                                                *)
(*                                                                         *)
(* Numbers.  A JavaScript number is a record [nan, v]; v is the value in   *)
(* hundredths, so "1.5" is 150 and "150" is 15000.  Pixel          *)
(* quantities (scaledWidth, imageLeft, ...) are whole pixels, v = pixels.  *)
(* Strings that the code inspects character by character (parseFloat,      *)
(* toLowerCase) are sequences of one-character strings.                    *)
(*                                                                         *)
(* Records.  TLC keeps the fields of a record in the order in which their  *)
(* names first occur in this module, and sorts a record written in another *)
(* order in place when it is first compared; workers that share the record *)
(* can then collide.  Every record constructor below therefore lists its   *)
(* fields in that order (zoom before x, v before w, ...).                  *)
(***************************************************************************)
EXTENDS Integers, Sequences, FiniteSets, TLC

\* ------------------------------------------------------------------ bounds

\* Largest of the small canvases the pure pipeline is exercised on
\* (besides the product's 500 x 500 canvas).
MaxCanvas == 4

\* Number of upload requests one behaviour of the request flow serves.
MaxRequests == 2

\* Number of pipeline invocations in flight at once on one service instance.
MaxInvocations == 2

\* Number of createUpload calls in flight at once.
MaxCreators == 2

\* Number of POST /products/upload requests one behaviour serves.
MaxProducts == 2

\* ------------------------------------------------------- program constants

\* uploadSessionImage always calls the pipeline with a 500 x 500 canvas.
ProductCanvas == 500

\* Clamp range of zoom, in hundredths: Math.max(0.1, Math.min(5, zoom)).
ZoomMin == 10
ZoomMax == 500

\* Clamp range of x and y, in hundredths of a percent.
PercentMin == 0
PercentMax == 10000

\* Fully opaque alpha of an 8-bit channel.
Opaque == 255

\* const maxAttempts = 10: how often a short code is drawn again.
MaxAttempts == 10

\* ------------------------------------------------------------- JS numbers

NaN == [nan |-> TRUE, v |-> 0]

Num(v) == [nan |-> FALSE, v |-> v]

\* Math.min / Math.max: NaN if either argument is NaN.
MathMin(a, b) == IF a.nan \/ b.nan THEN NaN ELSE IF a.v <= b.v THEN a ELSE b

MathMax(a, b) == IF a.nan \/ b.nan THEN NaN ELSE IF a.v >= b.v THEN a ELSE b

\* Math.abs.
MathAbs(a) == IF a.nan THEN NaN ELSE IF a.v < 0 THEN Num(-a.v) ELSE a

\* a < b in JavaScript: false when either side is NaN.
JsLess(a, b) == ~a.nan /\ ~b.nan /\ a.v < b.v

\* a === b and a <= b for numbers: false when either side is NaN.
JsEquals(a, b) == ~a.nan /\ ~b.nan /\ a.v = b.v

JsLessEq(a, b) == ~a.nan /\ ~b.nan /\ a.v <= b.v

\* a + b.
JsPlus(a, b) == IF a.nan \/ b.nan THEN NaN ELSE Num(a.v + b.v)

\* a - b.
JsMinus(a, b) == IF a.nan \/ b.nan THEN NaN ELSE Num(a.v - b.v)

\* Mutant: halves are rounded away from zero, so -2.5 becomes -3.
RoundDivAway(n, d) ==
    IF n >= 0 THEN (2 * n + d) \div (2 * d) ELSE 0 - ((2 * (0 - n) + d) \div (2 * d))

\* Math.round(n / d) for integers n and d > 0: round half up, floor(n/d + 1/2).
RoundDiv(n, d) == (2 * n + d) \div (2 * d)

\* ---------------------------------------------------------------- strings

Digits == {"0", "1", "2", "3", "4", "5", "6", "7", "8", "9"}

DigitVal(c) ==
    CASE c = "0" -> 0 [] c = "1" -> 1 [] c = "2" -> 2 [] c = "3" -> 3
      [] c = "4" -> 4 [] c = "5" -> 5 [] c = "6" -> 6 [] c = "7" -> 7
      [] c = "8" -> 8 [] c = "9" -> 9

\* The longest prefix of s made of decimal digits.
LeadingDigits(s) ==
    LET n == CHOOSE k \in 0..Len(s) :
                 /\ \A i \in 1..k : s[i] \in Digits
                 /\ (k = Len(s) \/ s[k + 1] \notin Digits)
    IN SubSeq(s, 1, n)

RECURSIVE DigitsValue(_)
DigitsValue(ds) ==
    IF ds = <<>> THEN 0
    ELSE 10 * DigitsValue(SubSeq(ds, 1, Len(ds) - 1)) + DigitVal(ds[Len(ds)])

\* The first two fractional digits as hundredths ("5" is 50, "25" is 25).
FractionValue(fs) ==
    IF fs = <<>> THEN 0
    ELSE IF Len(fs) = 1 THEN 10 * DigitVal(fs[1])
    ELSE 10 * DigitVal(fs[1]) + DigitVal(fs[2])

\* parseFloat: optional sign, digits, optional "." and digits; the rest of
\* the string is ignored; NaN when no digit is found.  (Exponents, Infinity
\* and leading white space are not among the modelled inputs.)
ParseFloat(s) ==
    LET signed == s # <<>> /\ s[1] \in {"+", "-"}
        body   == IF signed THEN Tail(s) ELSE s
        ip     == LeadingDigits(body)
        rest   == SubSeq(body, Len(ip) + 1, Len(body))
        fp     == IF rest # <<>> /\ rest[1] = "." THEN LeadingDigits(Tail(rest))
                  ELSE <<>>
        mag    == 100 * DigitsValue(ip) + FractionValue(fp)
    IN IF ip = <<>> /\ fp = <<>> THEN NaN
       ELSE IF signed /\ s[1] = "-" THEN Num(-mag) ELSE Num(mag)

LowerChar(c) ==
    CASE c = "A" -> "a" [] c = "B" -> "b" [] c = "C" -> "c" [] c = "D" -> "d"
      [] c = "E" -> "e" [] c = "F" -> "f" [] c = "G" -> "g" [] c = "H" -> "h"
      [] c = "I" -> "i" [] c = "J" -> "j" [] c = "K" -> "k" [] c = "L" -> "l"
      [] c = "M" -> "m" [] c = "N" -> "n" [] c = "O" -> "o" [] c = "P" -> "p"
      [] c = "Q" -> "q" [] c = "R" -> "r" [] c = "S" -> "s" [] c = "T" -> "t"
      [] c = "U" -> "u" [] c = "V" -> "v" [] c = "W" -> "w" [] c = "X" -> "x"
      [] c = "Y" -> "y" [] c = "Z" -> "z" [] OTHER -> c

\* String.prototype.toLowerCase.
ToLowerCase(s) == [i \in 1..Len(s) |-> LowerChar(s[i])]

UpperChar(c) ==
    CASE c = "a" -> "A" [] c = "b" -> "B" [] c = "c" -> "C" [] c = "d" -> "D"
      [] c = "e" -> "E" [] c = "f" -> "F" [] c = "g" -> "G" [] c = "h" -> "H"
      [] c = "i" -> "I" [] c = "j" -> "J" [] c = "k" -> "K" [] c = "l" -> "L"
      [] c = "m" -> "M" [] c = "n" -> "N" [] c = "o" -> "O" [] c = "p" -> "P"
      [] c = "q" -> "Q" [] c = "r" -> "R" [] c = "s" -> "S" [] c = "t" -> "T"
      [] c = "u" -> "U" [] c = "v" -> "V" [] c = "w" -> "W" [] c = "x" -> "X"
      [] c = "y" -> "Y" [] c = "z" -> "Z" [] OTHER -> c

\* String.prototype.toUpperCase.
ToUpperCase(s) == [i \in 1..Len(s) |-> UpperChar(s[i])]

\* String.prototype.trim on the modelled alphabet (blank is " ").
RECURSIVE Trim(_)
Trim(s) ==
    IF s = <<>> THEN s
    ELSE IF s[1] = " " THEN Trim(Tail(s))
    ELSE IF s[Len(s)] = " " THEN Trim(SubSeq(s, 1, Len(s) - 1))
    ELSE s

\* String.prototype.includes: part is a contiguous piece of whole.
Includes(whole, part) ==
    \E i \in 0..(Len(whole) - Len(part)) :
        SubSeq(whole, i + 1, i + Len(part)) = part

Circle == <<"c", "i", "r", "c", "l", "e">>
Heart == <<"h", "e", "a", "r", "t">>
Rectangle == <<"r", "e", "c", "t", "a", "n", "g", "l", "e">>

\* const validShapes = ['circle', 'heart', 'rectangle'].
validShapes == {Circle, Heart, Rectangle}

\* --------------------------------------------------- geometry (transformImage)

\* Mutant: the zoom is used as requested, without the clamp.
ClampZoomMissing(zoom) == zoom

\* const zoom = Math.max(0.1, Math.min(5, customizationData.zoom)).
ClampZoom(zoom) == MathMax(Num(ZoomMin), MathMin(Num(ZoomMax), zoom))

\* Mutant: the center is used as requested, without the clamp.
ClampPercentMissing(p) == p

\* const x = Math.max(0, Math.min(100, customizationData.x)); same for y.
ClampPercent(p) == MathMax(Num(PercentMin), MathMin(Num(PercentMax), p))

\* Mutant: the canvas is divided by the zoom instead of multiplied.
ScaledSizeDivided(outputLen, zoom) ==
    IF zoom.nan THEN NaN ELSE Num(RoundDiv(outputLen * 100, zoom.v))

\* const scaledWidth = Math.round(outputWidth * zoom); zoom in hundredths.
ScaledSize(outputLen, zoom) ==
    IF zoom.nan THEN NaN ELSE Num(RoundDiv(outputLen * zoom.v, 100))

\* const centerX = Math.round((x / 100) * outputWidth); x in hundredths.
CenterPos(outputLen, p) ==
    IF p.nan THEN NaN ELSE Num(RoundDiv(p.v * outputLen, 100 * 100))

\* Mutant: the far corner of the scaled image, not its center, is put on the
\* center position.
ImageOriginCorner(center, scaled) ==
    IF center.nan \/ scaled.nan THEN NaN ELSE Num(center.v - scaled.v)

\* const imageLeft = Math.round(centerX - scaledWidth / 2).
ImageOrigin(center, scaled) ==
    IF center.nan \/ scaled.nan THEN NaN
    ELSE Num(RoundDiv(2 * center.v - scaled.v, 2))

\* Mutant: nothing is skipped when the image starts left of the canvas.
ExtractOffsetNone(image) == IF image.nan THEN NaN ELSE Num(0)

\* let extractLeft = 0; if (imageLeft < 0) extractLeft = Math.abs(imageLeft).
ExtractOffset(image) == IF JsLess(image, Num(0)) THEN MathAbs(image) ELSE Num(0)

\* Mutant: the extract size is not capped at the canvas.
ExtractSizeUncapped(scaled, image, outputLen) ==
    IF JsLess(image, Num(0)) THEN JsMinus(scaled, ExtractOffset(image)) ELSE scaled

\* let extractWidth = scaledWidth;
\* if (imageLeft < 0) extractWidth = scaledWidth - extractLeft;
\* extractWidth = Math.min(extractWidth, outputWidth).
ExtractSize(scaled, image, outputLen) ==
    MathMin(IF JsLess(image, Num(0))
              THEN JsMinus(scaled, ExtractOffset(image))
              ELSE scaled,
            Num(outputLen))

\* Mutant: the cropped image is always drawn at the canvas origin.
CompositePosOrigin(image) == IF image.nan THEN NaN ELSE Num(0)

\* const compositeLeft = Math.max(0, imageLeft).
CompositePos(image) == MathMax(Num(0), image)

\* The numbers transformImage computes before it touches the image.
PlacementRect(outputWidth, outputHeight, data) ==
    LET zoom == ClampZoom(data.zoom)
        x == ClampPercent(data.x)
        y == ClampPercent(data.y)
        scaledWidth == ScaledSize(outputWidth, zoom)
        scaledHeight == ScaledSize(outputHeight, zoom)
        centerX == CenterPos(outputWidth, x)
        centerY == CenterPos(outputHeight, y)
        imageLeft == ImageOrigin(centerX, scaledWidth)
        imageTop == ImageOrigin(centerY, scaledHeight)
    IN [zoom |-> zoom, x |-> x, y |-> y,
        scaledWidth |-> scaledWidth, scaledHeight |-> scaledHeight,
        centerX |-> centerX, centerY |-> centerY,
        imageLeft |-> imageLeft, imageTop |-> imageTop,
        extractLeft |-> ExtractOffset(imageLeft),
        extractTop |-> ExtractOffset(imageTop),
        extractWidth |-> ExtractSize(scaledWidth, imageLeft, outputWidth),
        extractHeight |-> ExtractSize(scaledHeight, imageTop, outputHeight),
        compositeLeft |-> CompositePos(imageLeft),
        compositeTop |-> CompositePos(imageTop)]

\* The placement before any request has computed one.
NoRect == PlacementRect(1, 1, [zoom |-> NaN, x |-> NaN, y |-> NaN])

\* sharp's parameter checks: a positive integer / a non-negative integer.
IsPositiveInt(n) == ~n.nan /\ n.v >= 1

IsNonNegativeInt(n) == ~n.nan /\ n.v >= 0

\* .resize(scaledWidth, scaledHeight, { fit: 'cover' }) accepts its sizes.
ResizeAccepts(r) == IsPositiveInt(r.scaledWidth) /\ IsPositiveInt(r.scaledHeight)

\* .extract({ left, top, width, height }) accepts its region, which must lie
\* inside the resized image.
ExtractAccepts(r) ==
    /\ IsNonNegativeInt(r.extractLeft) /\ IsNonNegativeInt(r.extractTop)
    /\ IsPositiveInt(r.extractWidth) /\ IsPositiveInt(r.extractHeight)
    /\ r.extractLeft.v + r.extractWidth.v <= r.scaledWidth.v
    /\ r.extractTop.v + r.extractHeight.v <= r.scaledHeight.v

\* .composite([{ input: croppedImage, top, left }]) on the canvas: integer
\* offsets and an overlay no larger than the canvas.
CompositeAccepts(r, outputWidth, outputHeight) ==
    /\ ~r.compositeLeft.nan /\ ~r.compositeTop.nan
    /\ r.extractWidth.v <= outputWidth /\ r.extractHeight.v <= outputHeight

\* ------------------------------------------------------------------ images

\* An alpha strictly between transparent and opaque (an anti-aliased edge, a
\* half-transparent photo pixel).
EdgeAlpha == Opaque \div 2

\* The uploaded files of the model: Express.Multer.File with its mimetype,
\* whether sharp can decode the bytes, the native size, and whether the
\* picture has transparent pixels.
PhotoA == [id |-> "A", mimetype |-> "image/png", decodable |-> TRUE,
           w |-> 800, h |-> 600, alpha |-> TRUE]
PhotoB == [id |-> "B", mimetype |-> "image/jpeg", decodable |-> TRUE,
           w |-> 3, h |-> 7, alpha |-> FALSE]
Corrupt == [id |-> "X", mimetype |-> "image/jpeg", decodable |-> FALSE,
            w |-> 0, h |-> 0, alpha |-> FALSE]
Gif == [id |-> "G", mimetype |-> "image/gif", decodable |-> TRUE,
        w |-> 10, h |-> 10, alpha |-> FALSE]
NoFile == [id |-> "none", mimetype |-> "", decodable |-> FALSE,
           w |-> 0, h |-> 0, alpha |-> FALSE]

\* An image buffer, described by how it was made.
NoImage == [w |-> 0, h |-> 0, kind |-> "none", src |-> NoFile, rect |-> NoRect,
            shape |-> <<>>]

\* file.buffer as stored for original.png.
FileBuffer(file) == [NoImage EXCEPT !.kind = "file", !.w = file.w, !.h = file.h,
                                   !.src = file]

\* Mutant: the canvas is created with the scaled size.
TransformedImageScaledCanvas(file, r, outputWidth, outputHeight) ==
    [NoImage EXCEPT !.kind = "transformed", !.w = r.scaledWidth.v,
                    !.h = r.scaledHeight.v, !.src = file, !.rect = r]

\* sharp({ create: { width: outputWidth, height: outputHeight, ... } })
\*   .composite([{ input: croppedImage, top, left }]).png().toBuffer():
\* the result has the size of the created canvas.
TransformedImage(file, r, outputWidth, outputHeight) ==
    [NoImage EXCEPT !.kind = "transformed", !.w = outputWidth, !.h = outputHeight,
                    !.src = file, !.rect = r]

\* sharp(whiteBg).composite([...]).png().toBuffer(), whiteBg of width x height.
ShapedImage(base, width, height, shape) ==
    [base EXCEPT !.kind = "shaped", !.w = width, !.h = height, !.shape = shape]

\* A pixel: its alpha and, from top to bottom, what its colour is mixed of.
WhitePixel == [a |-> Opaque,
               layers |-> <<[v |-> 0, w |-> Opaque, img |-> "white", u |-> 0]>>]

\* Alpha of the photo at pixel (u, v) of the resized photo.
SourceAlpha(file, u, v) ==
    IF ~file.alpha THEN Opaque
    ELSE CASE (u + v) % 3 = 0 -> 0
           [] (u + v) % 3 = 1 -> EdgeAlpha
           [] OTHER -> Opaque

\* Pixel (u, v) of sharp(imageBuffer).resize(scaledWidth, scaledHeight).
ResizedPixel(file, u, v) ==
    [a |-> SourceAlpha(file, u, v),
     layers |-> <<[v |-> v, w |-> SourceAlpha(file, u, v), img |-> file.id, u |-> u]>>]

\* blend 'over' (the default): the overlay pixel drawn over the pixel below.
SourceOver(top, below) ==
    IF top.a = Opaque THEN top
    ELSE IF top.a = 0 THEN below
    ELSE [a |-> top.a + (below.a * (Opaque - top.a)) \div Opaque,
          layers |-> top.layers \o below.layers]

\* blend 'dest-in': the pixel below kept in proportion to the overlay's alpha.
DestIn(maskAlpha, below) ==
    [a |-> (below.a * maskAlpha) \div Opaque, layers |-> below.layers]

\* Mutant: the extract step takes the top-left corner of the resized photo,
\* whatever extractLeft and extractTop are.
TransformedPixelFromOrigin(img, i, j) ==
    LET r == img.rect
        u == i - r.compositeLeft.v
        v == j - r.compositeTop.v
    IN IF u >= 0 /\ u < r.extractWidth.v /\ v >= 0 /\ v < r.extractHeight.v
         THEN SourceOver(ResizedPixel(img.src, u, v), WhitePixel)
         ELSE WhitePixel

\* Pixel (i, j) of the image transformImage returns: the cropped photo drawn
\* at (compositeLeft, compositeTop) over the white canvas; what falls outside
\* the canvas is not drawn.
TransformedPixel(img, i, j) ==
    LET r == img.rect
        u == i - r.compositeLeft.v
        v == j - r.compositeTop.v
    IN IF u >= 0 /\ u < r.extractWidth.v /\ v >= 0 /\ v < r.extractHeight.v
         THEN SourceOver(ResizedPixel(img.src, r.extractLeft.v + u, r.extractTop.v + v),
                         WhitePixel)
         ELSE WhitePixel

\* ------------------------------------------------- masks (applyShapeMask)

Min(a, b) == IF a <= b THEN a ELSE b

Max(a, b) == IF a >= b THEN a ELSE b

\* Distance from the interval [lo, hi] to the point c, and to its far end.
NearDist(lo, hi, c) == IF hi < c THEN c - hi ELSE IF lo > c THEN lo - c ELSE 0

FarDist(lo, hi, c) == Max(c - lo, hi - c)

\* Distance between the intervals [lo, hi] and [clo, chi].
GapDist(lo, hi, clo, chi) ==
    IF hi < clo THEN clo - hi ELSE IF lo > chi THEN lo - chi ELSE 0

\* Mutant: the radius is half of the larger side.
CircleAlphaLargerSide(width, height, i, j) ==
    LET radius == Max(width, height)
        nx == NearDist(2 * i, 2 * i + 2, width)
        ny == NearDist(2 * j, 2 * j + 2, height)
        fx == FarDist(2 * i, 2 * i + 2, width)
        fy == FarDist(2 * j, 2 * j + 2, height)
    IN IF fx * fx + fy * fy <= radius * radius THEN Opaque
       ELSE IF nx * nx + ny * ny >= radius * radius THEN 0
       ELSE EdgeAlpha

\* case 'circle': <circle cx = width / 2, cy = height / 2,
\* r = Math.min(width, height) / 2>.  Pixel (i, j) is the square
\* [i, i+1] x [j, j+1]; lengths are in half pixels.  Opaque when the square
\* is inside the disk, transparent when no point of it is, an edge otherwise.
CircleAlpha(width, height, i, j) ==
    LET radius == Min(width, height)
        nx == NearDist(2 * i, 2 * i + 2, width)
        ny == NearDist(2 * j, 2 * j + 2, height)
        fx == FarDist(2 * i, 2 * i + 2, width)
        fy == FarDist(2 * j, 2 * j + 2, height)
    IN IF fx * fx + fy * fy <= radius * radius THEN Opaque
       ELSE IF nx * nx + ny * ny >= radius * radius THEN 0
       ELSE EdgeAlpha

\* Mutant: the inset is 8% of the larger side.
RectPaddingLargerSide(width, height) == 8 * Max(width, height)

\* case 'rectangle': const padding = Math.min(width, height) * 0.08, in
\* hundredths of a pixel.
RectPadding(width, height) == 8 * Min(width, height)

\* rx="10", in hundredths of a pixel; SVG limits rx to half the side of the
\* <rect>.
RectRadius(width, height) ==
    Min(10 * 100, Min((100 * width - 2 * RectPadding(width, height)) \div 2,
                      (100 * height - 2 * RectPadding(width, height)) \div 2))

\* case 'rectangle': <rect x = y = padding, width - 2 padding by
\* height - 2 padding, rx = 10>.  Lengths are in hundredths of a pixel.
RectangleAlpha(width, height, i, j) ==
    LET padding == RectPadding(width, height)
        rx == RectRadius(width, height)
        x0 == padding
        x1 == 100 * width - padding
        y0 == padding
        y1 == 100 * height - padding
        a == 100 * i
        b == 100 * j
        \* distance of a point / of the pixel from the straight part
        dx(px) == NearDist(x0 + rx, x1 - rx, px)
        dy(py) == NearDist(y0 + rx, y1 - rx, py)
        inBox(px, py) == px >= x0 /\ px <= x1 /\ py >= y0 /\ py <= y1
        inShape(px, py) ==
            /\ inBox(px, py)
            /\ (dx(px) = 0 \/ dy(py) = 0
                \/ dx(px) * dx(px) + dy(py) * dy(py) <= rx * rx)
        nx == GapDist(a, a + 100, x0 + rx, x1 - rx)
        ny == GapDist(b, b + 100, y0 + rx, y1 - rx)
    IN IF /\ inShape(a, b) /\ inShape(a + 100, b)
          /\ inShape(a, b + 100) /\ inShape(a + 100, b + 100) THEN Opaque
       ELSE IF \/ a + 100 <= x0 \/ a >= x1 \/ b + 100 <= y0 \/ b >= y1
               \/ (nx > 0 /\ ny > 0 /\ nx * nx + ny * ny >= rx * rx) THEN 0
       ELSE EdgeAlpha

\* case 'heart': the path of the 100 x 100 viewBox, fitted (xMidYMid meet)
\* into width x height.  VB is a pixel edge's viewBox coordinate times
\* min(width, height).  The outline lies in [10, 90] x [20, 90] and encloses
\* [20, 80] x [40, 60]: a pixel outside the first is transparent, one inside
\* the second opaque; the model does not decide the pixels between, and
\* gives them the edge alpha.
HeartAlpha(width, height, i, j) ==
    LET m == Min(width, height)
        VB(e, len) == (2 * e - len + m) * 50
    IN IF \/ VB(i + 1, width) <= 10 * m \/ VB(i, width) >= 90 * m
          \/ VB(j + 1, height) <= 20 * m \/ VB(j, height) >= 90 * m THEN 0
       ELSE IF /\ VB(i, width) >= 20 * m /\ VB(i + 1, width) <= 80 * m
               /\ VB(j, height) >= 40 * m /\ VB(j + 1, height) <= 60 * m
            THEN Opaque
       ELSE EdgeAlpha

\* maskImage: sharp(Buffer.from(maskSvg)).resize(width, height, ...).png().
MaskAlpha(shape, width, height, i, j) ==
    CASE shape = Circle -> CircleAlpha(width, height, i, j)
      [] shape = Heart -> HeartAlpha(width, height, i, j)
      [] shape = Rectangle -> RectangleAlpha(width, height, i, j)

\* Mutant: the mask is rendered at the size of the photo it is applied to.
MaskImageAtPhotoSize(img, i, j) ==
    MaskAlpha(img.shape, img.src.w, img.src.h, i, j)

\* Alpha at (i, j) of the maskImage applyShapeMask renders for the image it
\* returns as img: the SVG is written from shape, width and height.
MaskImage(img, i, j) == MaskAlpha(img.shape, img.w, img.h, i, j)

\* Mutant: the mask is drawn with blend 'over' instead of 'dest-in'.
FinalPixelMaskOver(img, i, j) ==
    SourceOver([a |-> MaskAlpha(img.shape, img.w, img.h, i, j),
                layers |-> WhitePixel.layers],
               SourceOver(TransformedPixel(img, i, j), WhitePixel))

\* Pixel (i, j) of the image applyShapeMask returns: sharp(whiteBg).composite(
\* [{ input: resizedImage, blend: 'over' }, { input: maskImage, blend:
\* 'dest-in' }]); resizedImage is the transformed image at its own size.
FinalPixel(img, i, j) ==
    DestIn(MaskImage(img, i, j),
           SourceOver(TransformedPixel(img, i, j), WhitePixel))

\* ------------------------------------------------------------------- state

VARIABLES
    pc,             \* where the request in flight stands (its next await)
    served,         \* requests answered so far
    supabase,       \* this.supabase is a client (TRUE) or null (FALSE)
    orders,         \* notes of the orders Shopify holds
    storage,        \* bucket customizer-uploads: path -> stored buffer
    body,           \* the form fields of the request in flight
    file,           \* its uploaded file
    data,           \* customizationData
    canvas,         \* outputWidth, outputHeight of the pipeline
    sessionIdUsed,  \* finalSessionId
    rect,           \* the placement transformImage computed
    transformed,    \* transformedImage
    shaped,         \* shapedImage
    calls,          \* what the request has called so far, in order
    response,       \* the answer to the last request
    args,           \* per concurrent invocation: what its caller passed
    runs,           \* per concurrent invocation: its position and its locals
    uploads,        \* the rows of table uploads
    creates,        \* per createUpload call: its position and its locals
    product,        \* the /products request in flight, and the last answer
    productFiles    \* bucket customizer-uploads: the paths under products/

customizerVars == <<pc, served, supabase, orders, storage, body, file, data, canvas,
                    sessionIdUsed, rect, transformed, shaped, calls, response>>

concurrentVars == <<args, runs>>

productVars == <<uploads, creates, product, productFiles>>

vars == <<customizerVars, concurrentVars, productVars>>

\* ------------------------------------------------------------------ inputs

S1 == <<"s", "1">>

SessionInputs == {<<>>, <<" ">>, S1}

XInputs == {<<>>, <<"5", "0">>, <<"1", "5", "0">>, <<"a", "b", "c">>}

\* y is always sent: the missing-field test is the same for x, y, zoom, shape.
YInputs == {<<"5", "0">>}

ZoomInputs == {<<>>, <<"1">>, <<"9">>}

\* No shape, a valid shape in mixed case, and a shape that is not offered.
ShapeInputs == {<<>>, <<"H", "e", "a", "r", "t">>, <<"s", "t", "a", "r">>}

FileInputs == {NoFile, PhotoA, Corrupt, Gif}

\* The notes of the orders in the shop: none, or one that mentions S1.
OrderInputs == {{}, {<<"#">> \o S1}}

\* Timestamp and random suffix of a regenerated session ID.
SuffixInputs == {<<"_", "7", "_", "K">>, <<"_", "7", "_", "Q">>}

NoBody == [zoom |-> <<>>, x |-> <<>>, y |-> <<>>, shape |-> <<>>, session |-> <<>>]

NoData == [zoom |-> NaN, x |-> NaN, y |-> NaN, shape |-> <<>>]

NoResponse == [sessionIdUsed |-> <<>>, status |-> 0, message |-> "",
               originalFileId |-> <<>>, shapedFileId |-> <<>>]

\* HttpException(message, status) / BadRequestException(message).
ErrorResponse(status, message) ==
    [NoResponse EXCEPT !.status = status, !.message = message]

\* `customizer/${finalSessionId}/original.png` and `.../${shape}.png`.
OriginalPath(sessionId) == <<sessionId, <<"original">>>>

\* Mutant: the shaped image is stored under the session ID of the request,
\* not the one in use.
ShapedPathRequested(sessionId, shape) == <<body.session, shape>>

ShapedPath(sessionId, shape) == <<sessionId, shape>>

\* The Error sharp throws when a codec fails, as the controller would answer
\* it had it come through: HttpException(error.message, 500).
SharpError ==
    ErrorResponse(500, "Input buffer contains unsupported image format")

\* The arguments and the locals of a pipeline invocation that has not begun.
NoArgs == [data |-> NoData, file |-> NoFile]

NoRun == [data |-> NoData, rect |-> NoRect, file |-> NoFile, pc |-> "idle",
          transformed |-> NoImage, shaped |-> NoImage]

Invocations == 1..MaxInvocations

\* No pipeline invocation is in flight beside the request's own.
NoInvocations ==
    /\ args = [k \in Invocations |-> NoArgs]
    /\ runs = [k \in Invocations |-> NoRun]

\* What generateShortCode can return (8 characters of A-Z0-9; two here).
Codes == {<<"A", "7">>, <<"B", "2">>}

\* Public URLs handed to createUpload; <<>> is the empty string.
ImageUrls == {<<>>, <<"u", "1">>, <<"u", "2">>}

Creators == 1..MaxCreators

\* The locals of a createUpload call that has not begun; once it has ended,
\* uploadId and finalCode are what it returned, message what it threw.
NoCreate == [pc |-> "idle", message |-> "", imageUrl |-> <<>>, finalCode |-> <<>>,
             attempts |-> 0, uploadId |-> 0]

\* An answer of the products controller.
NoAnswer == [status |-> 0, message |-> "", imageUrl |-> <<>>, code |-> <<>>]

\* The locals of uploadProductImage, the number of uploads begun, the answer
\* to the last upload or removal and the answer to the GET /products/:code
\* that followed it last.
NoProduct == [pc |-> "idle", imageUrl |-> <<>>, attempts |-> 0, count |-> 0,
              shortCode |-> <<>>, answer |-> NoAnswer, found |-> NoAnswer]

\* No product was uploaded and no createUpload call is in flight.
NoProducts ==
    /\ uploads = {}
    /\ creates = [k \in Creators |-> NoCreate]
    /\ product = NoProduct
    /\ productFiles = {}

\* ----------------------------------------------------------------- actions

\* The request is answered (the controller returns, or rethrows the
\* HttpException) and its local values are gone; data, rect and calls keep
\* what the last request parsed, computed and called.
Answer(resp) ==
    /\ pc' = "idle"
    /\ served' = served + 1
    /\ response' = resp
    /\ body' = NoBody
    /\ file' = NoFile
    /\ sessionIdUsed' = <<>>
    /\ transformed' = NoImage
    /\ shaped' = NoImage

\* Mutant: the catch answers with a success instead of throwing.
FailAsSuccess(message) ==
    Answer([NoResponse EXCEPT !.status = 201, !.message = message])

\* Mutant: the stage's catch rethrows the error it caught; it is no
\* BadRequestException, so uploadSessionImage's catch replaces it.
FailRethrown(message) ==
    Answer(ErrorResponse(400, "Failed to upload customized image"))

\* Mutant: the catch of a stage starts the pipeline again instead of
\* throwing.
FailRetried(message) ==
    /\ pc' = "transform"
    /\ transformed' = NoImage
    /\ shaped' = NoImage
    /\ UNCHANGED <<served, response, body, file, sessionIdUsed>>

\* A pipeline stage threw: its catch throws BadRequestException(message),
\* uploadSessionImage's catch and the controller's rethrow it.
Fail(message) == Answer(ErrorResponse(400, message))

\* The request goes on to its next await.
Await(next, call) ==
    /\ pc' = next
    /\ calls' = Append(calls, call)
    /\ UNCHANGED <<served, response, body, file>>

\* customizationData as the controller parses it from the form fields.
ParseBody(b) ==
    [zoom |-> ParseFloat(b.zoom), x |-> ParseFloat(b.x), y |-> ParseFloat(b.y),
     shape |-> ToLowerCase(b.shape)]

\* Mutant: the controller does not validate the shape.
RejectionWithoutShapeCheck(b, f) ==
    IF b.session = <<>> THEN "Session ID is required"
    ELSE IF b.x = <<>> \/ b.y = <<>> \/ b.zoom = <<>> \/ b.shape = <<>>
      THEN "Missing required fields: x, y, zoom, shape"
    ELSE IF f = NoFile THEN "No file provided"
    ELSE IF Trim(b.session) = <<>> THEN "Session ID is required"
    ELSE IF ~supabase THEN "Supabase service is not configured"
    ELSE IF f.mimetype \notin {"image/png", "image/jpeg"}
      THEN "Only PNG and JPG files are allowed"
    ELSE ""

\* What stops the request before its first await: the controller's checks,
\* then uploadSessionImage's; "" when nothing does.
Rejection(b, f) ==
    IF b.session = <<>> THEN "Session ID is required"
    ELSE IF b.x = <<>> \/ b.y = <<>> \/ b.zoom = <<>> \/ b.shape = <<>>
      THEN "Missing required fields: x, y, zoom, shape"
    ELSE IF ToLowerCase(b.shape) \notin validShapes THEN "Invalid shape"
    ELSE IF f = NoFile THEN "No file provided"
    ELSE IF Trim(b.session) = <<>> THEN "Session ID is required"
    ELSE IF ~supabase THEN "Supabase service is not configured"
    ELSE IF f.mimetype \notin {"image/png", "image/jpeg"}
      THEN "Only PNG and JPG files are allowed"
    ELSE ""

\* POST /customizer/upload: CustomizerController.uploadImage up to the call of
\* uploadSessionImage, and that up to its first await (getOrders).
UploadImage(b, f) ==
    /\ pc = "idle"
    /\ served < MaxRequests
    /\ rect' = NoRect
    /\ data' = IF b.session = <<>> \/ b.x = <<>> \/ b.y = <<>> \/ b.zoom = <<>>
                  \/ b.shape = <<>>
               THEN NoData ELSE ParseBody(b)
    /\ IF Rejection(b, f) # ""
         THEN /\ Answer(ErrorResponse(400, Rejection(b, f)))
              /\ calls' = <<>>
         ELSE /\ pc' = "getOrders"
              /\ calls' = <<"shopify.getOrders">>
              /\ body' = b
              /\ file' = f
              /\ UNCHANGED <<served, response, sessionIdUsed, transformed, shaped>>
    /\ UNCHANGED <<concurrentVars, productVars>>
    /\ UNCHANGED <<supabase, orders, storage, canvas>>

\* generateUniqueSessionId once getOrders settles (up: it returned).
UniqueSessionId(baseSessionId, up, suffix) ==
    IF up /\ \E note \in orders : Includes(note, baseSessionId)
      THEN baseSessionId \o suffix
      ELSE baseSessionId

\* getOrders settles, the session ID is chosen and the removal of the old
\* files starts.
GenerateUniqueSessionId(up, suffix) ==
    /\ pc = "getOrders"
    /\ sessionIdUsed' = UniqueSessionId(body.session, up, suffix)
    /\ Await("remove", "storage.remove")
    /\ UNCHANGED <<concurrentVars, productVars>>
    /\ UNCHANGED <<supabase, orders, storage, canvas, data, rect,
                   transformed, shaped>>

\* storage.remove([originalFilePath, shapedFilePath]) settles; a failure is
\* ignored.  Then the upload of the original starts.
RemoveExisting(removed) ==
    /\ pc = "remove"
    /\ storage' = IF removed
                    THEN [p \in DOMAIN storage \
                               {OriginalPath(sessionIdUsed),
                                ShapedPath(sessionIdUsed, data.shape)}
                            |-> storage[p]]
                    ELSE storage
    /\ Await("uploadOriginal", "storage.upload original")
    /\ UNCHANGED <<concurrentVars, productVars>>
    /\ UNCHANGED <<supabase, orders, canvas, data, sessionIdUsed,
                   rect, transformed, shaped>>

\* The upload of original.png settles; on success sharp(file.buffer)
\* .metadata() starts.
UploadOriginal(stored) ==
    /\ pc = "uploadOriginal"
    /\ IF stored
         THEN /\ storage' = (OriginalPath(sessionIdUsed) :> FileBuffer(file))
                                @@ storage
              /\ Await("metadata", "sharp.metadata")
              /\ UNCHANGED <<sessionIdUsed, transformed, shaped>>
         ELSE /\ Answer(ErrorResponse(400, "Failed to upload original image"))
              /\ UNCHANGED <<storage, calls>>
    /\ UNCHANGED <<concurrentVars, productVars>>
    /\ UNCHANGED <<supabase, orders, canvas, data, rect>>

\* sharp(file.buffer).metadata() settles: bytes sharp cannot decode make it
\* throw an Error that is no BadRequestException.
Metadata ==
    /\ pc = "metadata"
    /\ IF file.decodable
         THEN /\ Await("transform", "transformImage")
              /\ UNCHANGED <<sessionIdUsed, transformed, shaped>>
         ELSE /\ Answer(ErrorResponse(400, "Failed to upload customized image"))
              /\ UNCHANGED calls
    /\ UNCHANGED <<concurrentVars, productVars>>
    /\ UNCHANGED <<supabase, orders, storage, canvas, data, rect>>

\* Mutant: a placement sharp rejects yields the blank canvas instead of an
\* error.
TransformSucceedsBlank(f, r, outputWidth, outputHeight, fault) ==
    f.decodable /\ ~fault

\* transformImage succeeds: the bytes decode, sharp accepts the resize, the
\* extract and the composite, and the codec does not fail.
TransformSucceeds(f, r, outputWidth, outputHeight, fault) ==
    /\ f.decodable
    /\ ResizeAccepts(r)
    /\ ExtractAccepts(r)
    /\ CompositeAccepts(r, outputWidth, outputHeight)
    /\ ~fault

\* this.transformImage(file.buffer, customizationData, 500, 500).
TransformImage(fault) ==
    /\ pc = "transform"
    /\ rect' = PlacementRect(canvas.w, canvas.h, data)
    /\ IF TransformSucceeds(file, rect', canvas.w, canvas.h, fault)
         THEN /\ transformed' = TransformedImage(file, rect', canvas.w, canvas.h)
              /\ Await("mask", "applyShapeMask")
              /\ UNCHANGED <<sessionIdUsed, shaped>>
         ELSE /\ Fail("Failed to transform image")
              /\ UNCHANGED calls
    /\ UNCHANGED <<concurrentVars, productVars>>
    /\ UNCHANGED <<supabase, orders, storage, canvas, data>>

\* `Failed to apply ${shape} mask`, the message of applyShapeMask's catch.
MaskFailureMessage(shape) ==
    CASE shape = Circle -> "Failed to apply circle mask"
      [] shape = Heart -> "Failed to apply heart mask"
      [] shape = Rectangle -> "Failed to apply rectangle mask"
      [] OTHER -> "Failed to apply star mask"

\* applyShapeMask succeeds: a shape of the switch, and no codec failure.
MaskSucceeds(shape, fault) == shape \in validShapes /\ ~fault

\* this.applyShapeMask(transformedImage, 500, 500, customizationData.shape).
ApplyShapeMask(fault) ==
    /\ pc = "mask"
    /\ IF MaskSucceeds(data.shape, fault)
         THEN /\ shaped' = ShapedImage(transformed, canvas.w, canvas.h, data.shape)
              /\ Await("uploadShaped", "storage.upload shaped")
              /\ UNCHANGED <<sessionIdUsed, transformed>>
         ELSE /\ Fail(MaskFailureMessage(data.shape))
              /\ UNCHANGED calls
    /\ UNCHANGED <<concurrentVars, productVars>>
    /\ UNCHANGED <<supabase, orders, storage, canvas, data, rect>>

\* The upload of <shape>.png settles; on success the URLs are read and the
\* controller answers 201.
UploadShaped(stored) ==
    /\ pc = "uploadShaped"
    /\ IF stored
         THEN /\ storage' = (ShapedPath(sessionIdUsed, data.shape) :> shaped)
                                @@ storage
              /\ Answer([sessionIdUsed |-> sessionIdUsed,
                         status |-> 201,
                         message |-> "Image uploaded successfully",
                         originalFileId |-> OriginalPath(sessionIdUsed),
                         shapedFileId |-> ShapedPath(sessionIdUsed, data.shape)])
         ELSE /\ Answer(ErrorResponse(400, "Failed to upload shaped image"))
              /\ UNCHANGED storage
    /\ UNCHANGED <<concurrentVars, productVars>>
    /\ UNCHANGED <<supabase, orders, canvas, data, rect, calls>>

\* ----------------------------------------------------- the request flow

Init ==
    /\ pc = "idle"
    /\ served = 0
    /\ supabase \in BOOLEAN
    /\ orders \in OrderInputs
    /\ storage = <<>>
    /\ body = NoBody
    /\ file = NoFile
    /\ data = NoData
    /\ canvas = [w |-> ProductCanvas, h |-> ProductCanvas]
    /\ sessionIdUsed = <<>>
    /\ rect = NoRect
    /\ transformed = NoImage
    /\ shaped = NoImage
    /\ calls = <<>>
    /\ response = NoResponse
    /\ NoInvocations
    /\ NoProducts

Next ==
    \/ \E s \in SessionInputs, x \in XInputs, y \in YInputs, z \in ZoomInputs,
          sh \in ShapeInputs, f \in FileInputs :
          UploadImage([zoom |-> z, x |-> x, y |-> y, shape |-> sh, session |-> s], f)
    \/ \E up \in BOOLEAN, suffix \in SuffixInputs : GenerateUniqueSessionId(up, suffix)
    \/ \E removed \in BOOLEAN : RemoveExisting(removed)
    \/ \E stored \in BOOLEAN : UploadOriginal(stored)
    \/ Metadata
    \/ \E fault \in BOOLEAN : TransformImage(fault)
    \/ \E fault \in BOOLEAN : ApplyShapeMask(fault)
    \/ \E stored \in BOOLEAN : UploadShaped(stored)

Spec == Init /\ [][Next]_vars

\* ------------------------------------------------- the pipeline on its own

\* transformImage and applyShapeMask take the canvas size as parameters; here
\* they run from the point where uploadSessionImage calls them, on every
\* canvas, center, zoom, shape and photo of the sets below.

CanvasSizes == (1..MaxCanvas) \cup {400, ProductCanvas}

\* x and y as numbers, in hundredths of a percent.
PercentValues == {NaN, Num(-500), Num(0), Num(5000), Num(10000), Num(15000)}

CenterYValues == {Num(-500), Num(0), Num(5000), Num(7550)}

\* zoom as a number, in hundredths.
ZoomValues == {NaN, Num(5), Num(10), Num(50), Num(100), Num(101), Num(150),
               Num(500), Num(900)}

PipelineShapes == validShapes \cup {<<"s", "t", "a", "r">>}

PipelineFiles == {PhotoA, PhotoB, Corrupt}

PipelineInit ==
    /\ pc = "transform"
    /\ served = 0
    /\ supabase = TRUE
    /\ orders = {}
    /\ storage = <<>>
    /\ body = [NoBody EXCEPT !.session = S1]
    /\ file \in PipelineFiles
    /\ \E x \in PercentValues, y \in CenterYValues, zoom \in ZoomValues,
          shape \in PipelineShapes :
          data = [zoom |-> zoom, x |-> x, y |-> y, shape |-> shape]
    /\ \E w \in CanvasSizes, h \in CanvasSizes : canvas = [w |-> w, h |-> h]
    /\ sessionIdUsed = S1
    /\ rect = NoRect
    /\ transformed = NoImage
    /\ shaped = NoImage
    /\ calls = <<"transformImage">>
    /\ response = NoResponse
    /\ NoInvocations
    /\ NoProducts

PipelineNext ==
    \/ \E fault \in BOOLEAN : TransformImage(fault)
    \/ \E fault \in BOOLEAN : ApplyShapeMask(fault)
    \/ \E stored \in BOOLEAN : UploadShaped(stored)

PipelineSpec == PipelineInit /\ [][PipelineNext]_vars

\* ------------------------------------------- concurrent pipeline invocations

\* Several requests are in uploadSessionImage at once: each invocation of
\* transformImage and applyShapeMask is an async function with its own
\* arguments and locals, and the event loop interleaves the invocations at
\* their awaits.

\* What the invocations are called with.
ConcurrentArgs ==
    {[data |-> [zoom |-> Num(100), x |-> Num(5000), y |-> Num(5000), shape |-> Heart],
      file |-> PhotoA],
     [data |-> [zoom |-> Num(150), x |-> Num(0), y |-> Num(5000), shape |-> Circle],
      file |-> PhotoB],
     [data |-> [zoom |-> Num(500), x |-> Num(10000), y |-> Num(0), shape |-> Circle],
      file |-> PhotoA]}

\* Mutant: the stages keep their arguments and locals on the service
\* instance, where those of the first invocation are found.
FrameOnInstance(k) == runs[1]

\* The arguments and locals invocation k resumes with after an await: those
\* of its own call.
Frame(k) == runs[k]

\* uploadSessionImage calls the pipeline for one more request.
Invoke(k, a) ==
    /\ runs[k].pc = "idle"
    /\ args' = [args EXCEPT ![k] = a]
    /\ runs' = [runs EXCEPT ![k] = [NoRun EXCEPT !.pc = "transform",
                                                 !.data = a.data, !.file = a.file]]
    /\ UNCHANGED <<customizerVars, productVars>>

\* transformImage of invocation k runs to its return or its throw.
ConcurrentTransform(k, fault) ==
    /\ runs[k].pc = "transform"
    /\ LET fr == Frame(k)
           r == PlacementRect(canvas.w, canvas.h, fr.data)
       IN runs' = [runs EXCEPT ![k] =
                    IF TransformSucceeds(fr.file, r, canvas.w, canvas.h, fault)
                      THEN [fr EXCEPT !.pc = "mask", !.rect = r,
                                      !.transformed =
                                          TransformedImage(fr.file, r, canvas.w, canvas.h)]
                      ELSE [fr EXCEPT !.pc = "failed", !.rect = r]]
    /\ UNCHANGED <<customizerVars, productVars, args>>

\* applyShapeMask of invocation k runs to its return or its throw.
ConcurrentMask(k, fault) ==
    /\ runs[k].pc = "mask"
    /\ LET fr == Frame(k)
       IN runs' = [runs EXCEPT ![k] =
                    IF MaskSucceeds(fr.data.shape, fault)
                      THEN [fr EXCEPT !.pc = "done",
                                      !.shaped = ShapedImage(fr.transformed, canvas.w,
                                                             canvas.h, fr.data.shape)]
                      ELSE [fr EXCEPT !.pc = "failed"]]
    /\ UNCHANGED <<customizerVars, productVars, args>>

ConcurrentInit ==
    /\ pc = "idle"
    /\ served = 0
    /\ supabase = TRUE
    /\ orders = {}
    /\ storage = <<>>
    /\ body = NoBody
    /\ file = NoFile
    /\ data = NoData
    /\ \E w \in {MaxCanvas, ProductCanvas} : canvas = [w |-> w, h |-> w]
    /\ sessionIdUsed = <<>>
    /\ rect = NoRect
    /\ transformed = NoImage
    /\ shaped = NoImage
    /\ calls = <<>>
    /\ response = NoResponse
    /\ NoInvocations
    /\ NoProducts

ConcurrentNext ==
    \/ \E k \in Invocations, a \in ConcurrentArgs : Invoke(k, a)
    \/ \E k \in Invocations, fault \in BOOLEAN : ConcurrentTransform(k, fault)
    \/ \E k \in Invocations, fault \in BOOLEAN : ConcurrentMask(k, fault)

ConcurrentSpec == ConcurrentInit /\ [][ConcurrentNext]_vars

\* ------------------------------------- ProductUploadsService.createUpload

RowsWithCode(c) == {r \in uploads : r.code = c}

\* id UUID DEFAULT gen_random_uuid(): an id no row has.
NextId ==
    IF uploads = {} THEN 1
    ELSE 1 + (CHOOSE n \in {r.id : r \in uploads} : \A r \in uploads : r.id <= n)

\* Mutant: column code is not declared UNIQUE.
InsertAcceptsAny(c) == TRUE

\* code VARCHAR(10) UNIQUE NOT NULL: the insert of a code a row has fails.
InsertAccepts(c) == RowsWithCode(c) = {}

\* The call threw: BadRequestException(message).
CreateFailed(call, message) == [call EXCEPT !.pc = "failed", !.message = message]

\* createUpload(imageUrl, ...) without a code, up to its first await: the
\* checks, and finalCode = this.generateShortCode() = c.
CreateCall(url, c) ==
    IF ~supabase
      THEN CreateFailed(NoCreate,
               "Supabase service is not configured. Cannot create upload record.")
    ELSE IF url = <<>>
      THEN CreateFailed(NoCreate, "Image URL is required and must be a string")
    ELSE [NoCreate EXCEPT !.pc = "select", !.imageUrl = url, !.finalCode = c]

\* A caller other than the products controller calls createUpload.
CreateUpload(k, url, c) ==
    /\ creates[k].pc = "idle"
    /\ product.pc = "idle"
    /\ creates' = [creates EXCEPT ![k] = CreateCall(url, c)]
    /\ UNCHANGED <<customizerVars, concurrentVars, uploads, product, productFiles>>

\* .from('uploads').select('code').eq('code', finalCode).single() settles
\* (answered: with the table's answer; otherwise with an error and no data).
\* A row found: another code c is drawn and counted; none: the loop ends.
SelectCode(k, answered, c) ==
    /\ creates[k].pc = "select"
    /\ LET call == creates[k]
           existingRecord == answered /\ RowsWithCode(call.finalCode) # {}
       IN creates' = [creates EXCEPT ![k] =
               IF ~existingRecord THEN [call EXCEPT !.pc = "insert"]
               ELSE IF call.attempts + 1 >= MaxAttempts
                 THEN CreateFailed([call EXCEPT !.finalCode = c,
                                                !.attempts = call.attempts + 1],
                                   "Could not generate unique code after 10 attempts")
               ELSE [call EXCEPT !.finalCode = c, !.attempts = call.attempts + 1]]
    /\ UNCHANGED <<customizerVars, concurrentVars, uploads, product, productFiles>>

\* .from('uploads').insert({ code: finalCode, image_url: imageUrl, ... })
\* .select('id').single() settles (reached: the statement ran in the
\* database; otherwise it failed before).
InsertUpload(k, reached) ==
    /\ creates[k].pc = "insert"
    /\ LET call == creates[k]
       IN IF reached /\ InsertAccepts(call.finalCode)
            THEN /\ uploads' = uploads \cup {[id |-> NextId, code |-> call.finalCode,
                                              image_url |-> call.imageUrl]}
                 /\ creates' = [creates EXCEPT ![k] =
                                   [call EXCEPT !.pc = "done", !.uploadId = NextId]]
            ELSE /\ uploads' = uploads
                 /\ creates' = [creates EXCEPT ![k] =
                                   CreateFailed(call, "Failed to create upload record")]
    /\ UNCHANGED <<customizerVars, concurrentVars, product, productFiles>>

CreateInit ==
    /\ pc = "idle"
    /\ served = 0
    /\ supabase \in BOOLEAN
    /\ orders = {}
    /\ storage = <<>>
    /\ body = NoBody
    /\ file = NoFile
    /\ data = NoData
    /\ canvas = [w |-> ProductCanvas, h |-> ProductCanvas]
    /\ sessionIdUsed = <<>>
    /\ rect = NoRect
    /\ transformed = NoImage
    /\ shaped = NoImage
    /\ calls = <<>>
    /\ response = NoResponse
    /\ NoInvocations
    /\ NoProducts

CreateNext ==
    \/ \E k \in Creators, url \in ImageUrls, c \in Codes : CreateUpload(k, url, c)
    \/ \E k \in Creators, answered \in BOOLEAN, c \in Codes : SelectCode(k, answered, c)
    \/ \E k \in Creators, reached \in BOOLEAN : InsertUpload(k, reached)

CreateSpec == CreateInit /\ [][CreateNext]_vars

\* ------------------------------------------------------ ProductsController

\* The codes a client asks for: the generated ones, and one in lower case.
CodeInputs == Codes \cup {<<"a", "7">>, <<>>}

\* `products/${shortCode}/${shortCode}.${fileExtension}`; the JPEG files of
\* the model are named .jpg, the others get png.
ProductPath(code, f) ==
    <<code, IF f.mimetype = "image/jpeg" THEN "jpg" ELSE "png">>

\* getPublicUrl(filePath).data.publicUrl.
PublicUrl(path) == <<"/">> \o path[1] \o <<".", path[2]>>

\* The request throws HttpException(message, status).
ProductFailed(status, message) ==
    [product EXCEPT !.pc = "failed",
                    !.answer = [NoAnswer EXCEPT !.status = status, !.message = message]]

\* No /products request is in flight.
ProductIdle == product.pc \in {"idle", "done", "failed"}

\* POST /products/upload without sessionId and metadata, up to its first
\* await: the checks, and shortCode = this.generateShortCode() = c.
UploadProductImage(f, c) ==
    /\ ProductIdle
    /\ product.count < MaxProducts
    /\ \A k \in Creators : creates[k].pc \in {"idle", "done", "failed"}
    /\ creates' = [k \in Creators |-> NoCreate]
    /\ LET started == [NoProduct EXCEPT !.count = product.count + 1]
       IN product' =
            IF f = NoFile
              THEN [started EXCEPT !.pc = "failed",
                                   !.answer = [NoAnswer EXCEPT !.status = 400,
                                                  !.message = "File is required"]]
            ELSE IF f.mimetype \notin {"image/png", "image/jpeg", "image/jpg"}
              THEN [started EXCEPT !.pc = "failed",
                                   !.answer = [NoAnswer EXCEPT !.status = 400,
                                       !.message = "Only PNG and JPG files are allowed"]]
            ELSE IF ~supabase
              THEN [started EXCEPT !.pc = "failed",
                                   !.answer = [NoAnswer EXCEPT !.status = 500,
                                       !.message = "Supabase service is not configured"]]
            ELSE [started EXCEPT !.pc = "select", !.shortCode = c]
    /\ file' = IF product'.pc = "select" THEN f ELSE NoFile
    /\ UNCHANGED <<pc, served, supabase, orders, storage, body, data, canvas,
                   sessionIdUsed, rect, transformed, shaped, calls, response>>
    /\ UNCHANGED <<concurrentVars, uploads, productFiles>>

\* Step 1: the controller's own look-up of shortCode settles.
ControllerSelect(answered, c) ==
    /\ product.pc = "select"
    /\ LET existingRecord == answered /\ RowsWithCode(product.shortCode) # {}
       IN product' =
            IF ~existingRecord THEN [product EXCEPT !.pc = "upload"]
            ELSE IF product.attempts + 1 >= MaxAttempts
              THEN [ProductFailed(500, "Could not generate unique code")
                        EXCEPT !.shortCode = c, !.attempts = product.attempts + 1]
            ELSE [product EXCEPT !.shortCode = c, !.attempts = product.attempts + 1]
    /\ UNCHANGED <<customizerVars, concurrentVars, uploads, creates, productFiles>>

\* Steps 2 to 4: the upload of the file settles; stored, the URL is read and
\* createUpload(imageUrl, finalSessionId, productId, productName,
\* metadataObj) is called, which draws its code c.
UploadProductFile(stored, c) ==
    /\ product.pc = "upload"
    /\ IF stored
         THEN LET filePath == ProductPath(product.shortCode, file)
              IN /\ productFiles' = productFiles \cup {filePath}
                 /\ product' = [product EXCEPT !.pc = "createUpload",
                                               !.imageUrl = PublicUrl(filePath)]
                 /\ creates' = [creates EXCEPT ![1] = CreateCall(PublicUrl(filePath), c)]
         ELSE /\ product' = ProductFailed(500, "Failed to upload file")
              /\ UNCHANGED <<productFiles, creates>>
    /\ UNCHANGED <<customizerVars, concurrentVars, uploads>>

\* createUpload has returned or thrown; the controller goes on to Step 5.
CreateUploadSettles ==
    /\ product.pc = "createUpload"
    /\ creates[1].pc \in {"done", "failed"}
    /\ product' = IF creates[1].pc = "done" THEN [product EXCEPT !.pc = "qr"]
                  ELSE ProductFailed(400, creates[1].message)
    /\ UNCHANGED <<customizerVars, concurrentVars, uploads, creates, productFiles>>

\* Step 5: qrService.saveQrCode settles; saved, the controller answers with
\* code: shortCode and imageUrl.
SaveQrCode(saved) ==
    /\ product.pc = "qr"
    /\ product' =
         IF saved
           THEN [product EXCEPT !.pc = "done",
                     !.answer = [status |-> 201,
                                 message |-> "Product image uploaded and processed successfully",
                                 imageUrl |-> product.imageUrl,
                                 code |-> product.shortCode]]
           ELSE ProductFailed(500, "Failed to save QR code")
    /\ UNCHANGED <<customizerVars, concurrentVars, uploads, creates, productFiles>>

\* What GET /products/:code answers: getUploadByCode looks the upper-cased
\* code up (answered: the query was answered).
ProductLookup(code, answered) ==
    IF code = <<>>
      THEN [NoAnswer EXCEPT !.status = 400, !.message = "Code parameter is required"]
    ELSE IF ~supabase
      THEN [NoAnswer EXCEPT !.status = 400,
                            !.message = "Supabase service is not configured."]
    ELSE IF ~answered
      THEN [NoAnswer EXCEPT !.status = 400,
                            !.message = "Failed to retrieve upload record"]
    ELSE IF RowsWithCode(ToUpperCase(code)) = {}
      THEN [NoAnswer EXCEPT !.status = 404, !.message = "Product not found"]
    ELSE LET uploadRecord == CHOOSE r \in uploads : r.code = ToUpperCase(code)
         IN [NoAnswer EXCEPT !.status = 200, !.imageUrl = uploadRecord.image_url,
                             !.code = uploadRecord.code]

\* GET /products/:code.
GetProductByCode(code, answered) ==
    /\ ProductIdle
    /\ product' = [product EXCEPT !.found = ProductLookup(code, answered)]
    /\ UNCHANGED <<customizerVars, concurrentVars, uploads, creates, productFiles>>

\* DELETE /products/:code: deleteUpload removes the rows of the upper-cased
\* code, then the files products/<code>/<code>.png are removed.  The product
\* the last upload answered with is no longer known to be there.
DeleteProduct(code, deleted) ==
    /\ ProductIdle
    /\ IF code = <<>>
         THEN /\ product' = [ProductFailed(400, "Code parameter is required")
                                 EXCEPT !.found = NoAnswer]
              /\ UNCHANGED <<uploads, productFiles>>
       ELSE IF ~supabase
         THEN /\ product' = [ProductFailed(500, "Supabase service is not configured")
                                 EXCEPT !.found = NoAnswer]
              /\ UNCHANGED <<uploads, productFiles>>
       ELSE IF deleted
         THEN /\ uploads' = uploads \ RowsWithCode(ToUpperCase(code))
              /\ productFiles' = productFiles \ {<<code, "png">>}
              /\ product' = [NoProduct EXCEPT !.count = product.count]
         ELSE /\ product' = [ProductFailed(400, "Failed to delete upload record")
                                 EXCEPT !.found = NoAnswer]
              /\ UNCHANGED <<uploads, productFiles>>
    /\ UNCHANGED <<customizerVars, concurrentVars, creates>>

ProductsInit == CreateInit

ProductsNext ==
    \/ \E f \in {NoFile, PhotoA, Gif}, c \in Codes : UploadProductImage(f, c)
    \/ \E answered \in BOOLEAN, c \in Codes : ControllerSelect(answered, c)
    \/ \E stored \in BOOLEAN, c \in Codes : UploadProductFile(stored, c)
    \/ \E answered \in BOOLEAN, c \in Codes : SelectCode(1, answered, c)
    \/ \E reached \in BOOLEAN : InsertUpload(1, reached)
    \/ CreateUploadSettles
    \/ \E saved \in BOOLEAN : SaveQrCode(saved)
    \/ \E code \in CodeInputs, answered \in BOOLEAN : GetProductByCode(code, answered)
    \/ \E code \in CodeInputs, deleted \in BOOLEAN : DeleteProduct(code, deleted)

ProductsSpec == ProductsInit /\ [][ProductsNext]_vars

\* ------------------------------------------------------------------ claims

Range(seq) == {seq[k] : k \in DOMAIN seq}

\* The last request's transformImage has run: rect holds what it computed.
TransformRan == pc # "transform" /\ "transformImage" \in Range(calls)

\* transformImage computed with numbers only.
NumericRect == ~rect.zoom.nan /\ ~rect.x.nan /\ ~rect.y.nan

\* C1: for every zoom and center (after clamping) the extracted sub-image
\* placed at (compositeLeft, compositeTop) lies inside the canvas:
\* compositeLeft + extractWidth <= canvas.width and
\* compositeTop + extractHeight <= canvas.height.
C1_PlacedInsideCanvas ==
    (TransformRan /\ NumericRect) =>
        /\ rect.compositeLeft.v + rect.extractWidth.v <= canvas.w
        /\ rect.compositeTop.v + rect.extractHeight.v <= canvas.h

\* C2: whenever the pipeline succeeds, the image transformImage returns and
\* the image applyShapeMask returns (and the one then stored) have exactly the
\* canvas width and height, whatever the photo's size, the center and the zoom.
C2_OutputSize ==
    /\ transformed # NoImage => transformed.w = canvas.w /\ transformed.h = canvas.h
    /\ shaped # NoImage => shaped.w = canvas.w /\ shaped.h = canvas.h
    /\ \A p \in DOMAIN storage :
           storage[p].kind = "shaped" =>
               storage[p].w = canvas.w /\ storage[p].h = canvas.h

\* C2 witness: a shaped image was made on a canvas that is not square, from a
\* photo of another size, scaled beyond the canvas.
C2_Witness ==
    /\ shaped # NoImage
    /\ canvas.w # canvas.h
    /\ shaped.src.w # canvas.w
    /\ rect.scaledWidth.v > canvas.w

\* C3: for every request that passes the controller's validation the values
\* used in the geometry arithmetic satisfy 0.1 <= zoom <= 5, 0 <= x <= 100 and
\* 0 <= y <= 100; no out-of-range or non-numeric value reaches it.
C3_GeometryInputsInRange ==
    TransformRan =>
        /\ ~rect.zoom.nan /\ rect.zoom.v >= ZoomMin /\ rect.zoom.v <= ZoomMax
        /\ ~rect.x.nan /\ rect.x.v >= PercentMin /\ rect.x.v <= PercentMax
        /\ ~rect.y.nan /\ rect.y.v >= PercentMin /\ rect.y.v <= PercentMax

\* clamp(v, lo, hi) as the claim states it.
Clamped(n, lo, hi) ==
    IF n.nan THEN n ELSE IF n.v < lo THEN Num(lo) ELSE IF n.v > hi THEN Num(hi) ELSE n

ClampedData(d) ==
    [d EXCEPT !.x = Clamped(d.x, PercentMin, PercentMax),
              !.y = Clamped(d.y, PercentMin, PercentMax),
              !.zoom = Clamped(d.zoom, ZoomMin, ZoomMax)]

\* C4: the placement computed for (x, y, zoom) equals the one computed for
\* (clamp(x,0,100), clamp(y,0,100), clamp(zoom,0.1,5)) on every canvas; in
\* particular x = 150 gives what x = 100 gives, zoom = 9 what zoom = 5 gives
\* and center (200,200) what (100,100) gives.
C4_ClampIndistinguishable ==
    /\ TransformRan => rect = PlacementRect(canvas.w, canvas.h, ClampedData(data))
    /\ LET P(d) == PlacementRect(canvas.w, canvas.h, d)
       IN /\ P([data EXCEPT !.x = Num(15000)]) = P([data EXCEPT !.x = Num(10000)])
          /\ P([data EXCEPT !.zoom = Num(900)]) = P([data EXCEPT !.zoom = Num(500)])
          /\ P([data EXCEPT !.x = Num(20000), !.y = Num(20000)])
               = P([data EXCEPT !.x = Num(10000), !.y = Num(10000)])

\* C4 witness: a transform succeeded for a center and a zoom beyond the range.
C4_Witness ==
    /\ pc = "mask"
    /\ data.x.v > PercentMax /\ data.y.v < PercentMin /\ data.zoom.v > ZoomMax

\* C5 as stated: for a fixed canvas and center and any two requested zooms
\* z1 < z2, scaledWidth and scaledHeight for z2 are strictly greater than
\* those for z1.
C5_ZoomStrictlyIncreasing ==
    (TransformRan /\ ~data.zoom.nan) =>
        \A z2 \in ZoomValues :
            (~z2.nan /\ z2.v > data.zoom.v) =>
                /\ ScaledSize(canvas.w, ClampZoom(z2)).v > rect.scaledWidth.v
                /\ ScaledSize(canvas.h, ClampZoom(z2)).v > rect.scaledHeight.v

\* Both zooms lie in [0.1, 5] and differ by at least one pixel of len.
ZoomStep(z1, z2, len) ==
    /\ z1.v >= ZoomMin /\ z2.v <= ZoomMax
    /\ (z2.v - z1.v) * len >= 100

\* C5 as amended: for z1 < z2 the scaled sizes for z2 are at least those for
\* z1, and strictly greater when both zooms lie in [0.1, 5] and
\* (z2 - z1) * width >= 1 (resp. height).
C5_ZoomMonotone ==
    (TransformRan /\ ~data.zoom.nan) =>
        \A z2 \in ZoomValues :
            (~z2.nan /\ z2.v > data.zoom.v) =>
                /\ ScaledSize(canvas.w, ClampZoom(z2)).v >= rect.scaledWidth.v
                /\ ScaledSize(canvas.h, ClampZoom(z2)).v >= rect.scaledHeight.v
                /\ ZoomStep(data.zoom, z2, canvas.w) =>
                       ScaledSize(canvas.w, ClampZoom(z2)).v > rect.scaledWidth.v
                /\ ZoomStep(data.zoom, z2, canvas.h) =>
                       ScaledSize(canvas.h, ClampZoom(z2)).v > rect.scaledHeight.v

\* C5 witness: a transform ran at a zoom that has both a larger zoom one pixel
\* apart and a larger zoom that resolves to the same width.
C5_Witness ==
    /\ TransformRan /\ ~data.zoom.nan
    /\ \E z2 \in ZoomValues : ~z2.nan /\ z2.v > data.zoom.v
                              /\ ZoomStep(data.zoom, z2, canvas.w)
    /\ \E z2 \in ZoomValues : /\ ~z2.nan /\ z2.v > data.zoom.v
                              /\ ScaledSize(canvas.w, ClampZoom(z2)) = rect.scaledWidth

\* C6: whenever the resolved extractWidth or extractHeight is <= 0, the
\* transform ends in an error surfaced to the caller and the request makes and
\* stores no shaped image; no blank or default image takes its place.
C6_EmptyRegionIsError ==
    ( /\ TransformRan
      /\ ~rect.extractWidth.nan /\ ~rect.extractHeight.nan
      /\ (rect.extractWidth.v <= 0 \/ rect.extractHeight.v <= 0) ) =>
        /\ pc = "idle"
        /\ response = ErrorResponse(400, "Failed to transform image")
        /\ transformed = NoImage
        /\ shaped = NoImage
        /\ "storage.upload shaped" \notin Range(calls)
        /\ \A p \in DOMAIN storage : storage[p].kind # "shaped"

\* C6 witness: a transform resolved an extract width or height of 0 or less.
C6_Witness ==
    /\ TransformRan
    /\ ~rect.extractWidth.nan /\ ~rect.extractHeight.nan
    /\ (rect.extractWidth.v <= 0 \/ rect.extractHeight.v <= 0)

\* The pixels a claim about the image looks at: all of a small canvas, a grid
\* with the corners, the mask edges and the middle of a large one.
ProbeCoords(len) ==
    IF len <= MaxCanvas + 1 THEN 0..(len - 1)
    ELSE {0, 5, 39, 40, 73, 74, len \div 2, len - 41, len - 40, len - 1}

\* C7: in the final image every pixel where the shape mask is transparent has
\* alpha 0, and every pixel where the mask is fully opaque is fully opaque and
\* carries the colour of the photo composited over the white background there.
C7_ShapeContainment ==
    shaped # NoImage =>
        \A i \in ProbeCoords(shaped.w), j \in ProbeCoords(shaped.h) :
            LET m == MaskAlpha(shaped.shape, shaped.w, shaped.h, i, j)
                f == FinalPixel(shaped, i, j)
            IN /\ m = 0 => f.a = 0
               /\ m = Opaque =>
                      /\ f.a = Opaque
                      /\ f.layers = TransformedPixel(shaped, i, j).layers

\* C7 witness: a final image with a pixel outside the mask, a pixel inside it
\* that shows the photo, and one inside it that shows the white background.
C7_Witness ==
    /\ shaped # NoImage
    /\ \E i \in ProbeCoords(shaped.w), j \in ProbeCoords(shaped.h) :
           MaskAlpha(shaped.shape, shaped.w, shaped.h, i, j) = 0
    /\ \E i \in ProbeCoords(shaped.w), j \in ProbeCoords(shaped.h) :
           /\ MaskAlpha(shaped.shape, shaped.w, shaped.h, i, j) = Opaque
           /\ FinalPixel(shaped, i, j).layers[1].img = shaped.src.id
    /\ \E i \in ProbeCoords(shaped.w), j \in ProbeCoords(shaped.h) :
           /\ MaskAlpha(shaped.shape, shaped.w, shaped.h, i, j) = Opaque
           /\ FinalPixel(shaped, i, j) = WhitePixel

\* C9: if transformImage or applyShapeMask fails during uploadSessionImage the
\* request is rejected with an error: no shaped image is uploaded, no success
\* response is returned and no image is returned in its place.  A transform
\* whose resize or extract sharp rejects is a failing one.
C9_PipelineFailureRejects ==
    [][ /\ (pc = "transform" /\ ~(ResizeAccepts(rect') /\ ExtractAccepts(rect')))
            => pc' = "idle"
        /\ (pc \in {"transform", "mask"} /\ pc' = "idle") =>
            /\ response'.status = 400
            /\ response'.shapedFileId = <<>>
            /\ shaped' = NoImage
            /\ storage' = storage
            /\ "storage.upload shaped" \notin Range(calls') ]_vars

\* C9 witness: applyShapeMask failed after the original was stored.
C9_Witness ==
    /\ pc = "idle"
    /\ response.message = MaskFailureMessage(data.shape)
    /\ \E p \in DOMAIN storage : storage[p].kind = "file"

\* C10: a request whose shape, lower-cased, is not circle, heart or rectangle
\* is rejected with an error before any Shopify lookup, storage removal or
\* upload or pipeline stage runs; no default shape takes its place.
C10_InvalidShapeRejectedFirst ==
    [][ (data' # NoData /\ data'.shape \notin validShapes) =>
            /\ pc' = "idle"
            /\ response' = ErrorResponse(400, "Invalid shape")
            /\ calls' = <<>>
            /\ storage' = storage
            /\ transformed' = NoImage /\ shaped' = NoImage ]_vars

\* C10 witness: a request with shape "star" was answered.
C10_Witness ==
    /\ pc = "idle"
    /\ data.shape = <<"s", "t", "a", "r">>
    /\ response.message = "Invalid shape"

\* A codec failure ends the stage in this step: the photo does not decode, or
\* sharp accepted every parameter of the stage and still threw.
CodecFailed ==
    \/ /\ pc = "transform" /\ pc' = "idle"
       /\ \/ ~file.decodable
          \/ /\ ResizeAccepts(rect') /\ ExtractAccepts(rect')
             /\ CompositeAccepts(rect', canvas.w, canvas.h)
    \/ pc = "mask" /\ pc' = "idle" /\ data.shape \in validShapes

\* C11 as stated: a decode or encode failure inside a pipeline stage reaches
\* the caller of uploadSessionImage unchanged, with the kind and the message
\* the codec raised.
C11_CodecErrorUnchanged ==
    [][CodecFailed => response' = SharpError]_vars

\* C11 as amended: a decode or encode failure inside a pipeline stage reaches
\* the caller as a BadRequestException (400) whose message names the stage,
\* 'Failed to transform image' or 'Failed to apply <shape> mask'; the codec's
\* own error is replaced.
C11_CodecErrorReplaced ==
    [][CodecFailed =>
          response' = ErrorResponse(400, IF pc = "transform"
                                           THEN "Failed to transform image"
                                           ELSE MaskFailureMessage(data.shape))]_vars

\* C11 witness: transformImage failed on a placement sharp accepts.
C11_Witness ==
    /\ pc = "idle"
    /\ response.message = "Failed to transform image"
    /\ ResizeAccepts(rect) /\ ExtractAccepts(rect)
    /\ CompositeAccepts(rect, canvas.w, canvas.h)

\* What the pipeline returns for another photo, center and zoom with the
\* shape and the canvas of the request in flight.
OtherRun(f, x, zoom) ==
    ShapedImage(TransformedImage(f, PlacementRect(canvas.w, canvas.h,
                                                  [data EXCEPT !.zoom = zoom, !.x = x]),
                                 canvas.w, canvas.h),
                canvas.w, canvas.h, data.shape)

OtherRuns ==
    {OtherRun(f, c[1], c[2]) :
        f \in {PhotoA, PhotoB},
        c \in {<<Num(0), Num(10)>>, <<Num(10000), Num(500)>>}}

\* C12: the shape mask is a function of (shape, width, height) only: the mask
\* rendered for this run equals, pixel by pixel, the mask rendered for runs
\* with the same shape and canvas and another photo, center and zoom.
C12_MaskOfShapeAndSize ==
    shaped # NoImage =>
        \A other \in OtherRuns :
            \A i \in ProbeCoords(canvas.w), j \in ProbeCoords(canvas.h) :
                MaskImage(other, i, j) = MaskImage(shaped, i, j)

\* C12 witness: a mask with transparent and opaque pixels was rendered for a
\* run whose photo and zoom differ from those of the runs compared with it.
C12_Witness ==
    /\ shaped # NoImage
    /\ \E other \in OtherRuns :
           other.src # shaped.src /\ other.rect.zoom # shaped.rect.zoom
    /\ \E i \in ProbeCoords(canvas.w), j \in ProbeCoords(canvas.h) :
           MaskImage(shaped, i, j) = 0
    /\ \E i \in ProbeCoords(canvas.w), j \in ProbeCoords(canvas.h) :
           MaskImage(shaped, i, j) = Opaque

\* What transformImage and applyShapeMask return for the arguments a when no
\* other invocation runs.
AloneTransformed(a) ==
    TransformedImage(a.file, PlacementRect(canvas.w, canvas.h, a.data),
                     canvas.w, canvas.h)

AloneShaped(a) == ShapedImage(AloneTransformed(a), canvas.w, canvas.h, a.data.shape)

\* C13: under any interleaving of concurrent pipeline invocations on one
\* service instance each invocation returns the image it would return when
\* run alone: transformImage the transformed image of its own arguments,
\* applyShapeMask the shaped image of its own arguments.
C13_InterleavingIndependent ==
    \A k \in Invocations :
        /\ runs[k].pc \in {"mask", "done"} =>
               runs[k].transformed = AloneTransformed(args[k])
        /\ runs[k].pc = "done" => runs[k].shaped = AloneShaped(args[k])

\* C13 witness: one invocation has returned its image while another, called
\* with another photo, center, zoom and shape, is between its two stages.
C13_Witness ==
    \E k \in Invocations, j \in Invocations :
        /\ runs[k].pc = "done" /\ runs[j].pc = "mask"
        /\ args[k].file # args[j].file
        /\ args[k].data.zoom # args[j].data.zoom
        /\ args[k].data.shape # args[j].data.shape

\* C14: after POST /products/upload returns success with code C and image
\* URL U, and until that product is deleted, GET /products/C finds an upload
\* record and returns imageUrl U: the code returned to the client is the code
\* under which the database record was stored.
C14_UploadedProductFound ==
    product.pc = "done" =>
        /\ ProductLookup(product.answer.code, TRUE).status = 200
        /\ ProductLookup(product.answer.code, TRUE).imageUrl = product.answer.imageUrl
        /\ \E r \in uploads : r.code = product.answer.code
                               /\ r.image_url = product.answer.imageUrl

\* C15: the session ID that uploadSessionImage uses for storage does not
\* conflict with the existing Shopify orders: whenever the upload has
\* succeeded, the sessionIdUsed it answered with is not contained in the note
\* of any order.
C15_SessionIdUnused ==
    response.status = 201 =>
        \A note \in orders : ~Includes(note, response.sessionIdUsed)

\* The createUpload calls that have returned.
Returned == {k \in Creators : creates[k].pc = "done"}

\* C16: short codes are unique under every interleaving of concurrent
\* createUpload calls: no two rows of uploads share a code, every call that
\* has returned inserted exactly one row and that row carries the code the
\* call returned, and a call that ended in an error inserted none (the table
\* holds as many rows as calls have returned).
C16_ShortCodesUnique ==
    /\ \A r1, r2 \in uploads : r1.code = r2.code => r1 = r2
    /\ \A k \in Returned :
          /\ Cardinality({r \in uploads : r.id = creates[k].uploadId}) = 1
          /\ \A r \in uploads :
                r.id = creates[k].uploadId => /\ r.code = creates[k].finalCode
                                              /\ r.image_url = creates[k].imageUrl
    /\ \A j, k \in Returned : creates[j].uploadId = creates[k].uploadId => j = k
    /\ Cardinality(uploads) = Cardinality(Returned)

\* Two calls found the same code free; one inserted it and returned, the
\* other's insert was refused.
C16_Witness ==
    \E j, k \in Creators :
        /\ creates[j].pc = "done"
        /\ creates[k].pc = "failed"
        /\ creates[k].attempts = 0
        /\ creates[k].finalCode = creates[j].finalCode
        /\ creates[k].message = "Failed to create upload record"

\* The request's zoom lies in [0.1, 5] and its center in [0, 100]^2.
InRangeData ==
    /\ ~data.zoom.nan /\ data.zoom.v >= ZoomMin /\ data.zoom.v <= ZoomMax
    /\ ~data.x.nan /\ data.x.v >= PercentMin /\ data.x.v <= PercentMax
    /\ ~data.y.nan /\ data.y.v >= PercentMin /\ data.y.v <= PercentMax

\* The rectangle is valid for the resize and extract steps.
ValidRect ==
    /\ rect.scaledWidth.v >= 1 /\ rect.scaledHeight.v >= 1
    /\ rect.extractWidth.v >= 1 /\ rect.extractHeight.v >= 1

\* C17 as stated: the resolver is total: for every positive canvas width and
\* height, every zoom in [0.1, 5] and every center in [0, 100]^2 the resolved
\* rectangle has scaledWidth >= 1, scaledHeight >= 1, extractWidth >= 1 and
\* extractHeight >= 1.
C17_ResolverTotal == (TransformRan /\ InRangeData) => ValidRect

\* C17, amended: the same for every canvas whose width and height are at
\* least 5 pixels, the 500x500 canvas in use among them; on a smaller side
\* round(side * 0.1) is 0.
C17_ResolverTotalFrom5 ==
    (TransformRan /\ InRangeData /\ canvas.w >= 5 /\ canvas.h >= 5) => ValidRect

\* C17 witness: the smallest zoom with the center in a corner of a canvas of
\* at least 5 pixels: the scaled image is cut by the canvas edge on both axes.
C17_Witness ==
    /\ TransformRan /\ InRangeData /\ canvas.w >= 5 /\ canvas.h >= 5
    /\ data.zoom.v = ZoomMin /\ data.x.v = PercentMin /\ data.y.v = PercentMin
    /\ rect.extractLeft.v >= 1 /\ rect.extractTop.v >= 1
    /\ ValidRect

\* n is num/d rounded half up: n - 1/2 <= num/d < n + 1/2 (d > 0).
IsRoundHalfUp(n, num, d) ==
    /\ d * (2 * n - 1) <= 2 * num
    /\ 2 * num < d * (2 * n + 1)

\* C18: for every canvas and clamped input transformImage computes
\* scaledWidth = round(width * zoom), scaledHeight = round(height * zoom),
\* centerX = round(x/100 * width), centerY = round(y/100 * height),
\* left = round(centerX - scaledWidth/2) and top = round(centerY -
\* scaledHeight/2), where round rounds half up, negative halves included
\* (zoom, x and y are held in hundredths).
C18_ResolverFormulas ==
    (TransformRan /\ NumericRect) =>
        LET zoom == Clamped(data.zoom, ZoomMin, ZoomMax).v
            x == Clamped(data.x, PercentMin, PercentMax).v
            y == Clamped(data.y, PercentMin, PercentMax).v
        IN /\ IsRoundHalfUp(rect.scaledWidth.v, canvas.w * zoom, 100)
           /\ IsRoundHalfUp(rect.scaledHeight.v, canvas.h * zoom, 100)
           /\ IsRoundHalfUp(rect.centerX.v, x * canvas.w, 100 * 100)
           /\ IsRoundHalfUp(rect.centerY.v, y * canvas.h, 100 * 100)
           /\ IsRoundHalfUp(rect.imageLeft.v, 2 * rect.centerX.v - rect.scaledWidth.v, 2)
           /\ IsRoundHalfUp(rect.imageTop.v, 2 * rect.centerY.v - rect.scaledHeight.v, 2)

\* C18 witness: centerX - scaledWidth/2 is a negative half (an odd scaled
\* width whose half exceeds the center) and was rounded up, and the zoom and
\* the center were clamped first.
C18_Witness ==
    /\ TransformRan /\ NumericRect
    /\ data.zoom.v > ZoomMax /\ data.x.v < PercentMin
    /\ rect.scaledWidth.v % 2 = 1
    /\ 2 * rect.centerX.v < rect.scaledWidth.v
    /\ 2 * rect.imageLeft.v = 2 * rect.centerX.v - rect.scaledWidth.v + 1

\* C19: for every resolved left/top, extractLeft = max(0, -left),
\* extractWidth = min(scaledWidth - extractLeft, canvas.width) and
\* compositeLeft = max(0, left), and the same for top and height; so the
\* extract size never exceeds the canvas; and on canvas 500x500 with center
\* (0,0) and zoom 1: left = top = -250, extractLeft = extractTop = 250,
\* extractWidth = extractHeight = 250, compositeLeft = compositeTop = 0.
C19_ExtractAndComposite ==
    (TransformRan /\ NumericRect) =>
        /\ rect.extractLeft.v = Max(0, 0 - rect.imageLeft.v)
        /\ rect.extractTop.v = Max(0, 0 - rect.imageTop.v)
        /\ rect.extractWidth.v = Min(rect.scaledWidth.v - rect.extractLeft.v, canvas.w)
        /\ rect.extractHeight.v = Min(rect.scaledHeight.v - rect.extractTop.v, canvas.h)
        /\ rect.compositeLeft.v = Max(0, rect.imageLeft.v)
        /\ rect.compositeTop.v = Max(0, rect.imageTop.v)
        /\ rect.extractWidth.v <= canvas.w
        /\ rect.extractHeight.v <= canvas.h
        /\ (/\ canvas = [w |-> ProductCanvas, h |-> ProductCanvas]
            /\ data.x = Num(0) /\ data.y = Num(0) /\ data.zoom = Num(100))
           => /\ rect.imageLeft = Num(-250) /\ rect.imageTop = Num(-250)
              /\ rect.extractLeft = Num(250) /\ rect.extractTop = Num(250)
              /\ rect.extractWidth = Num(250) /\ rect.extractHeight = Num(250)
              /\ rect.compositeLeft = Num(0) /\ rect.compositeTop = Num(0)

\* C19 witness: the transform of the claim's example succeeded, with the
\* first 250 pixels of the scaled photo skipped in both axes.
C19_Witness ==
    /\ pc = "mask"
    /\ canvas = [w |-> ProductCanvas, h |-> ProductCanvas]
    /\ data.x = Num(0) /\ data.y = Num(0) /\ data.zoom = Num(100)
    /\ rect.extractLeft = Num(250) /\ rect.extractTop = Num(250)
    /\ transformed # NoImage

\* The scaled image lies wholly inside the canvas.
FitsInside ==
    /\ rect.imageLeft.v >= 0 /\ rect.imageTop.v >= 0
    /\ rect.imageLeft.v + rect.scaledWidth.v <= canvas.w
    /\ rect.imageTop.v + rect.scaledHeight.v <= canvas.h

\* C20: whenever the scaled image fits wholly inside the canvas, no
\* extraction offset is applied (extractLeft = extractTop = 0), the extract
\* size is the scaled size and the image is placed at (left, top), its
\* center within one pixel of (centerX, centerY); on canvas 500x500 with
\* center (50,50) and zoom 0.1 this is a 50x50 image at (225,225).
C20_FitsWithoutOffset ==
    (TransformRan /\ NumericRect /\ FitsInside) =>
        /\ rect.extractLeft.v = 0 /\ rect.extractTop.v = 0
        /\ rect.extractWidth = rect.scaledWidth
        /\ rect.extractHeight = rect.scaledHeight
        /\ rect.compositeLeft = rect.imageLeft
        /\ rect.compositeTop = rect.imageTop
        /\ 2 * rect.compositeLeft.v + rect.extractWidth.v - 2 * rect.centerX.v \in -2..2
        /\ 2 * rect.compositeTop.v + rect.extractHeight.v - 2 * rect.centerY.v \in -2..2
        /\ (/\ canvas = [w |-> ProductCanvas, h |-> ProductCanvas]
            /\ data.x = Num(5000) /\ data.y = Num(5000) /\ data.zoom = Num(ZoomMin))
           => /\ rect.extractWidth = Num(50) /\ rect.extractHeight = Num(50)
              /\ rect.compositeLeft = Num(225) /\ rect.compositeTop = Num(225)

\* C20 witness: the transform of the claim's example succeeded.
C20_Witness ==
    /\ pc = "mask"
    /\ FitsInside
    /\ canvas = [w |-> ProductCanvas, h |-> ProductCanvas]
    /\ data.x = Num(5000) /\ data.y = Num(5000) /\ data.zoom = Num(ZoomMin)
    /\ rect.scaledWidth = Num(50) /\ rect.compositeLeft = Num(225)
    /\ transformed # NoImage

\* Canvas pixel (i, j) lies in the placed extract rectangle of r.
Covered(r, i, j) ==
    /\ i >= r.compositeLeft.v /\ i < r.compositeLeft.v + r.extractWidth.v
    /\ j >= r.compositeTop.v /\ j < r.compositeTop.v + r.extractHeight.v

\* C21: before masking, every canvas pixel covered by the placed extract
\* rectangle shows the pixel of the scaled source at (canvas position minus
\* (left, top)), drawn over white where the photo is transparent, and every
\* canvas pixel not covered by it is opaque white.
C21_TransformedPixels ==
    transformed # NoImage =>
        \A i \in ProbeCoords(transformed.w), j \in ProbeCoords(transformed.h) :
            LET r == transformed.rect
            IN TransformedPixel(transformed, i, j) =
                 IF Covered(r, i, j)
                   THEN SourceOver(ResizedPixel(transformed.src, i - r.imageLeft.v,
                                                j - r.imageTop.v),
                                   WhitePixel)
                   ELSE WhitePixel

\* C21 witness: a transformed image whose photo starts left of the canvas and
\* below its top edge, with a pixel that shows the photo and one left white.
C21_Witness ==
    /\ transformed # NoImage
    /\ transformed.rect.extractLeft.v > 0
    /\ transformed.rect.compositeTop.v > 0
    /\ \E i \in ProbeCoords(transformed.w), j \in ProbeCoords(transformed.h) :
           /\ Covered(transformed.rect, i, j)
           /\ TransformedPixel(transformed, i, j).layers[1].img = transformed.src.id
           /\ TransformedPixel(transformed, i, j).layers[1].u
                = i + transformed.rect.extractLeft.v
    /\ \E i \in ProbeCoords(transformed.w), j \in ProbeCoords(transformed.h) :
           /\ ~Covered(transformed.rect, i, j)
           /\ TransformedPixel(transformed, i, j) = WhitePixel

\* The point (x, y) is at most min(width, height)/2 away from
\* (width/2, height/2); compared in half pixels.
InDisk(x, y, width, height) ==
    (2 * x - width) * (2 * x - width) + (2 * y - height) * (2 * y - height)
        <= Min(width, height) * Min(width, height)

\* The four corner points of pixel (i, j).
PixelCorners(i, j) == {<<i, j>>, <<i + 1, j>>, <<i, j + 1>>, <<i + 1, j + 1>>}

\* C22: for shape circle on a width x height canvas a pixel is inside the
\* mask exactly when its distance from (width/2, height/2) is at most
\* min(width, height)/2: a pixel whose corners all are is opaque, a pixel
\* with a corner nearer than that is not transparent, a pixel with a corner
\* farther is not opaque; on the 500x500 canvas the disk of radius 250 around
\* (250,250) is opaque and the corners, pixel (5,5) among them, transparent.
C22_CircleMask ==
    (shaped # NoImage /\ shaped.shape = Circle) =>
        /\ \A i \in ProbeCoords(shaped.w), j \in ProbeCoords(shaped.h) :
              LET m == MaskImage(shaped, i, j)
                  inside == {c \in PixelCorners(i, j) :
                                InDisk(c[1], c[2], shaped.w, shaped.h)}
              IN /\ m = Opaque <=> inside = PixelCorners(i, j)
                 /\ m = 0 => \A c \in inside :
                        (2 * c[1] - shaped.w) * (2 * c[1] - shaped.w)
                          + (2 * c[2] - shaped.h) * (2 * c[2] - shaped.h)
                          = Min(shaped.w, shaped.h) * Min(shaped.w, shaped.h)
        /\ (shaped.w = ProductCanvas /\ shaped.h = ProductCanvas) =>
              /\ \A i, j \in {0, 5, ProductCanvas - 6, ProductCanvas - 1} :
                     MaskImage(shaped, i, j) = 0
              /\ \A i, j \in {74, 250, 425} : MaskImage(shaped, i, j) = Opaque
              /\ MaskImage(shaped, 250, 1) = Opaque
              /\ MaskImage(shaped, 1, 250) = Opaque
              /\ MaskImage(shaped, 498, 249) = Opaque

\* C22 witness: a circle was cut on the 500x500 canvas and on a canvas that
\* is not square; the mask has opaque, transparent and edge pixels.
C22_Witness ==
    /\ shaped # NoImage /\ shaped.shape = Circle
    /\ shaped.w = ProductCanvas /\ shaped.h < shaped.w
    /\ \E i \in ProbeCoords(shaped.w), j \in ProbeCoords(shaped.h) :
           MaskImage(shaped, i, j) = Opaque
    /\ \E i \in ProbeCoords(shaped.w), j \in ProbeCoords(shaped.h) :
           MaskImage(shaped, i, j) = 0
    /\ \E i \in ProbeCoords(shaped.w), j \in ProbeCoords(shaped.h) :
           MaskImage(shaped, i, j) = EdgeAlpha

\* The pixels a claim about the rectangle mask looks at along a side of
\* length len when the inset is 8% of min: the pixels at both edges of the
\* inset, next to the rounded corner, the first, the middle and the last.
EdgeCoords(len, min) ==
    IF len <= MaxCanvas + 1 THEN 0..(len - 1)
    ELSE LET p == (8 * min) \div 100
         IN {0, p - 1, p, p + 2, p + 3, p + 10, len \div 2, len - p - 11,
             len - p - 1, len - p, len - 1} \cap 0..(len - 1)

\* C23: for shape rectangle on a width x height canvas the mask's opaque
\* region is the rectangle [p, width-p] x [p, height-p], p = 8% of
\* min(width, height), with rounded corners: a pixel closer than p to a
\* canvas edge is transparent, an opaque pixel lies in the rectangle, and a
\* pixel in the rectangle at least 10 px from one of its sides' ends is
\* opaque; p = 32 on the 400x400 canvas and p = 40 on 500x500 (lengths in
\* hundredths of a pixel).
C23_RectangleMask ==
    (shaped # NoImage /\ shaped.shape = Rectangle) =>
        LET width == shaped.w
            height == shaped.h
            p == 8 * Min(width, height)
        IN /\ \A i \in EdgeCoords(width, Min(width, height)),
                 j \in EdgeCoords(height, Min(width, height)) :
                 LET m == MaskImage(shaped, i, j)
                     a == 100 * i
                     b == 100 * j
                     inRect == /\ a >= p /\ a + 100 <= 100 * width - p
                               /\ b >= p /\ b + 100 <= 100 * height - p
                     nearEdge == \/ a + 100 <= p \/ a >= 100 * width - p
                                 \/ b + 100 <= p \/ b >= 100 * height - p
                     offCorner == \/ a >= p + 1000 /\ a + 100 <= 100 * width - p - 1000
                                  \/ b >= p + 1000 /\ b + 100 <= 100 * height - p - 1000
                 IN /\ nearEdge => m = 0
                    /\ m = Opaque => inRect
                    /\ (inRect /\ offCorner) => m = Opaque
           /\ \A len \in {400, ProductCanvas} :
                 (width = len /\ height = len) =>
                     LET q == (len * 8) \div 100
                     IN /\ q = IF len = 400 THEN 32 ELSE 40
                        /\ MaskImage(shaped, q - 1, len \div 2) = 0
                        /\ MaskImage(shaped, q, len \div 2) = Opaque
                        /\ MaskImage(shaped, len - q - 1, len \div 2) = Opaque
                        /\ MaskImage(shaped, len - q, len \div 2) = 0
                        /\ MaskImage(shaped, len \div 2, q - 1) = 0
                        /\ MaskImage(shaped, len \div 2, q) = Opaque
                        /\ MaskImage(shaped, q, q) # Opaque

\* C23 witness: a rectangle was cut on the 400x400 canvas; pixel 31 of the
\* middle row is transparent, pixel 32 opaque and the corner pixel (32,32)
\* is cut away by the rounding.
C23_Witness ==
    /\ shaped # NoImage /\ shaped.shape = Rectangle
    /\ shaped.w = 400 /\ shaped.h = 400
    /\ MaskImage(shaped, 31, 200) = 0
    /\ MaskImage(shaped, 32, 200) = Opaque
    /\ MaskImage(shaped, 32, 32) = 0

\* C24: the rectangle mask's corner radius is 10 px on the 500x500
\* reference canvas and scales with the canvas: radius = 10 *
\* min(width, height) / 500, 8 px on 400x400, where the pixel (34,35), all
\* within 8 px of the corner arc's center (40,40), is then opaque (radius
\* in hundredths of a pixel).
C24_RadiusScales ==
    (shaped # NoImage /\ shaped.shape = Rectangle) =>
        /\ 500 * RectRadius(shaped.w, shaped.h) = 10 * 100 * Min(shaped.w, shaped.h)
        /\ (shaped.w = 400 /\ shaped.h = 400) => MaskImage(shaped, 34, 35) = Opaque

\* How often the call named c was started in the request.
Started(log, c) == Cardinality({k \in DOMAIN log : log[k] = c})

\* The request ends here with the error of a pipeline stage: nothing is
\* called or stored any more.
EndsInError ==
    /\ pc' = "idle"
    /\ response'.status = 400
    /\ response'.shapedFileId = <<>>
    /\ calls' = calls
    /\ storage' = storage
    /\ served' = served + 1

C26_CropKeepsPlacement ==
    TransformRan =>
        /\ JsEquals(JsMinus(rect.compositeLeft, rect.extractLeft), rect.imageLeft)
        /\ JsEquals(JsMinus(rect.compositeTop, rect.extractTop), rect.imageTop)
        /\ JsEquals(rect.extractLeft, Num(0)) \/ JsEquals(rect.compositeLeft, Num(0))
        /\ JsEquals(rect.extractTop, Num(0)) \/ JsEquals(rect.compositeTop, Num(0))

\* C27: for every input the extract rectangle lies inside the resized image:
\* extractLeft >= 0, extractTop >= 0, extractLeft + extractWidth <=
\* scaledWidth and extractTop + extractHeight <= scaledHeight.
C27_ExtractInsideResized ==
    TransformRan =>
        /\ JsLessEq(Num(0), rect.extractLeft)
        /\ JsLessEq(Num(0), rect.extractTop)
        /\ JsLessEq(JsPlus(rect.extractLeft, rect.extractWidth), rect.scaledWidth)
        /\ JsLessEq(JsPlus(rect.extractTop, rect.extractHeight), rect.scaledHeight)

\* The canvas uploadSessionImage passes to the pipeline.
OnProductCanvas == canvas = [w |-> ProductCanvas, h |-> ProductCanvas]

\* C28: on the product's 500x500 canvas, for every numeric x, y and zoom, at
\* least one pixel of the photo lands on the canvas: extractWidth >= 1,
\* extractHeight >= 1, compositeLeft < 500 and compositeTop < 500, and sharp
\* accepts the resize, the extract and the composite.
C28_PhotoLandsOnCanvas ==
    (TransformRan /\ OnProductCanvas
        /\ ~data.zoom.nan /\ ~data.x.nan /\ ~data.y.nan) =>
        /\ rect.extractWidth.v >= 1 /\ rect.extractHeight.v >= 1
        /\ rect.compositeLeft.v < ProductCanvas /\ rect.compositeTop.v < ProductCanvas
        /\ ResizeAccepts(rect) /\ ExtractAccepts(rect)
        /\ CompositeAccepts(rect, canvas.w, canvas.h)
        /\ rect.compositeLeft.v >= 0 /\ rect.compositeTop.v >= 0
        /\ Covered(rect, rect.compositeLeft.v, rect.compositeTop.v)

\* C28 witness: the smallest zoom and a center beyond the far corner, clamped
\* to (100, 100): the transform succeeded and the photo's first quarter lies
\* in the corner of the canvas.
C28_Witness ==
    /\ pc = "mask" /\ OnProductCanvas
    /\ data.zoom.v < ZoomMin /\ data.x.v > PercentMax /\ data.y.v = 7550
    /\ rect.compositeLeft.v = 475
    /\ Covered(rect, ProductCanvas - 1, 400)
    /\ transformed # NoImage

\* The request asks for center (50, 50) and a zoom of at least 1.
Centered ==
    /\ data.x = Num(5000) /\ data.y = Num(5000)
    /\ ~data.zoom.nan /\ data.zoom.v >= 100

\* The photo covers the whole canvas.
CoversCanvas ==
    /\ rect.extractWidth.v = canvas.w /\ rect.extractHeight.v = canvas.h
    /\ rect.compositeLeft.v = 0 /\ rect.compositeTop.v = 0

\* C29 as stated: for center (50,50) and any zoom >= 1 the photo covers the
\* whole canvas: extractWidth = canvas.width, extractHeight = canvas.height
\* and compositeLeft = compositeTop = 0.
C29_CenteredCovers == (TransformRan /\ Centered) => CoversCanvas

\* C29, amended: the same on a canvas of even width and height, the 500x500
\* canvas in use among them; every pixel of a transformed image then shows
\* the photo.
C29_CenteredCoversEven ==
    (TransformRan /\ Centered /\ canvas.w % 2 = 0 /\ canvas.h % 2 = 0) =>
        /\ CoversCanvas
        /\ transformed # NoImage =>
              \A i \in ProbeCoords(canvas.w), j \in ProbeCoords(canvas.h) :
                  Covered(rect, i, j)

\* C29 witness: zoom 1.01 on the 500x500 canvas: the scaled photo is 505
\* wide, starts 2 pixels left of the canvas and covers it.
C29_Witness ==
    /\ pc = "mask" /\ OnProductCanvas /\ Centered
    /\ rect.scaledWidth = Num(505) /\ rect.imageLeft = Num(-2)
    /\ CoversCanvas
    /\ transformed # NoImage

\* The awaited calls of uploadSessionImage, in the order of the source.
StepOrder ==
    <<"shopify.getOrders", "storage.remove", "storage.upload original",
      "sharp.metadata", "transformImage", "applyShapeMask",
      "storage.upload shaped">>

\* C30: in uploadSessionImage the steps run in a fixed order (session-ID
\* resolution, removal of old files, original upload, transform, mask,
\* shaped upload): the calls made are always an initial part of that order,
\* the shaped image is written only after the original was written and both
\* stages gave their image, and when the call returns success original.png
\* and <shape>.png are in storage under the one folder of sessionIdUsed.
C30_FixedOrder ==
    [][ /\ Len(calls') <= Len(StepOrder)
        /\ calls' = SubSeq(StepOrder, 1, Len(calls'))
        /\ (storage' # storage /\ pc = "uploadShaped") =>
              /\ Started(calls, "storage.upload original") = 1
              /\ OriginalPath(sessionIdUsed) \in DOMAIN storage
              /\ transformed # NoImage /\ shaped # NoImage
              /\ shaped.kind = "shaped" /\ shaped.rect = transformed.rect
        /\ (\E q \in DOMAIN storage' :
               storage'[q].kind = "shaped"
               /\ (q \notin DOMAIN storage \/ storage[q] # storage'[q]))
              => pc = "uploadShaped"
        /\ (pc # "idle" /\ pc' = "idle" /\ response'.status = 201) =>
              /\ calls = StepOrder
              /\ response'.sessionIdUsed = sessionIdUsed
              /\ response'.originalFileId = <<sessionIdUsed, <<"original">>>>
              /\ response'.shapedFileId = <<sessionIdUsed, data.shape>>
              /\ response'.originalFileId \in DOMAIN storage'
              /\ response'.shapedFileId \in DOMAIN storage'
              /\ storage'[response'.originalFileId].kind = "file"
              /\ storage'[response'.shapedFileId] = shaped
      ]_vars

\* C30 witness: a request whose session ID was in an order's note returned
\* success; both files lie under the regenerated ID.
C30_Witness ==
    /\ pc = "idle"
    /\ response.status = 201
    /\ \E suffix \in SuffixInputs : response.sessionIdUsed = S1 \o suffix
    /\ calls = StepOrder
    /\ response.originalFileId \in DOMAIN storage
    /\ response.shapedFileId \in DOMAIN storage
    /\ response.originalFileId[1] = response.shapedFileId[1]

====
